---- MODULE Spec2Model ----
(***************************************************************************)
(* Model of the identity-and-reference core of regrafilo:                  *)
(*   ItemArena   (grafo/core/graph_item/graph_item_arena.rs)               *)
(*   NameRefIndex (grafo/core/resolve/name_ref.rs)                         *)
(*   Resolver    (grafo/core/resolve/resolver.rs)                          *)
(*   NodeItemBuilder (grafo/core/graph_item/item/node/builder.rs)          *)
(*                                                                         *)
(* Option<T> is modelled as a sequence of length at most one:              *)
(*   None = <<>>, Some(x) = <<x>>.                                         *)
(* Result<T, E> is modelled as a record [ok, value, err].                  *)
(* Errors are tuples whose first component is the variant name; the item   *)
(* id some variants carry for diagnostics is left out of the tuples.       *)
(***************************************************************************)
EXTENDS Integers, Sequences, FiniteSets, TLC

(***************************************************************************)
(* Bounds of the model                                                     *)
(***************************************************************************)
\* number of push calls that reach the commit action, per behaviour
MaxPush == 2
\* group ids are 0..MaxGroup
MaxGroup == 1
\* concurrent callers of get_push_index, and allocations made by each
MaxThread == 2
MaxAlloc == 3
\* arena instances of the multi-instance specification
MaxInst == 3
\* values bound in the stand-alone NameRefIndex are 1..MaxValue, and the
\* number of insertions made into it
MaxValue == 2
MaxInsert == 3
\* group ids of the edge specification are 0..MaxDepth
MaxDepth == 2
\* item ids stored in the map an iterator runs over
MaxItem == 3
\* calls made on one iterator
MaxCall == 4

(***************************************************************************)
(* Program constants                                                       *)
(***************************************************************************)
\* util::alias::DEFAULT_ITEM_ID, the reserved id of a group's default item
DEFAULT_ITEM_ID == 0

GroupIds == 0..MaxGroup
Names == {"a", "b"}
GraphItemKinds == {"Node", "Edge", "Group"}
\* ids given to set_root_group_id by the callers of the model
RootIds == {0}

None == <<>>
Some(x) == <<x>>
OptNames == {None} \cup {Some(n) : n \in Names}

EmptyMap == [x \in {} |-> 0]
\* BTreeMap::insert / HashMap::insert: bind k to v, replacing an old binding
Put(f, k, v) == [x \in (DOMAIN f) \cup {k} |-> IF x = k THEN v ELSE f[x]]

(***************************************************************************)
(* NameRefIndex                                                            *)
(***************************************************************************)
NameRefIndex_new ==
    [reference_index |-> EmptyMap,
     rev_reference_index |-> EmptyMap,
     no_name_reference |-> {}]

\* is_usable_name that never finds a name
is_usable_name_never(index, kind, name) == FALSE

\* is_usable_name that looks the name up under every kind
is_usable_name_any_kind(index, kind, name) ==
    \E k \in DOMAIN index.reference_index :
        name \in DOMAIN index.reference_index[k]

\* NameRefIndex::is_usable_name
is_usable_name(index, kind, name) ==
    IF kind \notin DOMAIN index.reference_index
    THEN FALSE
    ELSE name \in DOMAIN index.reference_index[kind]

\* NameRefIndex::get_value
get_value(index, kind, name) ==
    IF kind \notin DOMAIN index.reference_index
    THEN None
    ELSE IF name \notin DOMAIN index.reference_index[kind]
         THEN None
         ELSE Some(index.reference_index[kind][name])

\* NameRefIndex::get_name
get_name(index, kind, value) ==
    IF <<kind, value>> \in DOMAIN index.rev_reference_index
    THEN Some(index.rev_reference_index[<<kind, value>>])
    ELSE None

\* is_already_registered that looks at named values only
is_already_registered_named(index, kind, value) ==
    <<kind, value>> \in DOMAIN index.rev_reference_index

\* NameRefIndex::is_already_registered
is_already_registered(index, kind, value) ==
    \/ <<kind, value>> \in index.no_name_reference
    \/ <<kind, value>> \in DOMAIN index.rev_reference_index

\* NameRefIndex::has_registered_name
has_registered_name(index, kind, value) ==
    <<kind, value>> \in DOMAIN index.rev_reference_index

\* NameRefIndex::count_usable_names_filtered_by; the predicate is given as
\* the set of kinds it accepts
count_usable_names_filtered_by(index, kinds) ==
    Cardinality({kn \in (DOMAIN index.reference_index) \X Names :
                    /\ kn[1] \in kinds
                    /\ kn[2] \in DOMAIN index.reference_index[kn[1]]})

\* NameRefIndex::count_usable_names_by
count_usable_names_by(index, kind) ==
    count_usable_names_filtered_by(index, {kind})

\* NameRefIndex::count_usable_names_all
count_usable_names_all(index) ==
    count_usable_names_filtered_by(index, DOMAIN index.reference_index)

\* NameRefIndex::count_registered_names_filtered_by
count_registered_names_filtered_by(index, kinds) ==
    Cardinality({k \in DOMAIN index.rev_reference_index : k[1] \in kinds})

\* NameRefIndex::count_registered_names_by
count_registered_names_by(index, kind) ==
    count_registered_names_filtered_by(index, {kind})

\* NameRefIndex::count_registered_names_all
count_registered_names_all(index) ==
    count_registered_names_filtered_by(
        index, {k[1] : k \in DOMAIN index.rev_reference_index})

\* NameRefIndex::insert_value_or_override; name is an Option.
\* result is Ok(()) as <<>> or Err(e) as <<e>>.
insert_value_or_override(index, kind, name, value) ==
    IF name # None
    THEN LET item_name == name[1]
             result == IF is_usable_name(index, kind, item_name)
                       THEN Some(<<"Override", kind, item_name>>)
                       ELSE None
             inner == IF kind \in DOMAIN index.reference_index
                      THEN index.reference_index[kind]
                      ELSE EmptyMap
         IN [index |-> [index EXCEPT
                          !.reference_index =
                              Put(@, kind, Put(inner, item_name, value)),
                          !.rev_reference_index =
                              Put(@, <<kind, value>>, item_name)],
             result |-> result]
    ELSE [index |-> [index EXCEPT
                       !.no_name_reference = @ \cup {<<kind, value>>}],
          result |-> None]

(***************************************************************************)
(* IdTree<GroupId>, the group hierarchy held by the Resolver.              *)
(* root is an Option; parent maps every non-root group to its parent.      *)
(***************************************************************************)
IdTree_None == [root |-> None, parent |-> EmptyMap]
IdTree_new(group_id) == [root |-> Some(group_id), parent |-> EmptyMap]
IdTree_is_some(tree) == tree.root # None
IdTree_contains(tree, id) ==
    /\ tree.root # None
    /\ (id = tree.root[1] \/ id \in DOMAIN tree.parent)

IdTree_get_root_id(tree) ==
    IF tree.root = None
    THEN [ok |-> FALSE, value |-> 0, err |-> <<"NotInitialized">>]
    ELSE [ok |-> TRUE, value |-> tree.root[1], err |-> <<>>]

IdTree_insert_id(tree, parent, child) ==
    IF tree.root = None
    THEN [tree |-> tree, result |-> Some(<<"NotInitialized">>)]
    ELSE IF ~IdTree_contains(tree, parent)
    THEN [tree |-> tree, result |-> Some(<<"NotFindParentId", parent>>)]
    ELSE IF IdTree_contains(tree, child)
    THEN [tree |-> tree, result |-> Some(<<"AlreadyExistId", child>>)]
    ELSE [tree |-> [tree EXCEPT !.parent = Put(@, child, parent)],
          result |-> None]

RECURSIVE AncestorChain(_, _)
AncestorChain(tree, id) ==
    IF id \in DOMAIN tree.parent
    THEN <<tree.parent[id]>> \o AncestorChain(tree, tree.parent[id])
    ELSE <<>>

\* Option<Vec<GroupId>>: from the immediate parent up to the root
IdTree_get_ancestor_ids(tree, id) ==
    IF IdTree_contains(tree, id) THEN Some(AncestorChain(tree, id)) ELSE None

(***************************************************************************)
(* Resolver                                                                *)
(***************************************************************************)
Resolver_default ==
    [group_id_tree |-> IdTree_None,
     graph_items |-> NameRefIndex_new,
     layout_items |-> NameRefIndex_new]

\* set_root_group_id without the check for an existing root
set_root_group_id_again(resolver, group_id) ==
    [resolver |-> [resolver EXCEPT !.group_id_tree = IdTree_new(group_id)],
     result |-> None]

\* Resolver::set_root_group_id
set_root_group_id(resolver, group_id) ==
    IF IdTree_is_some(resolver.group_id_tree)
    THEN [resolver |-> resolver, result |-> Some(<<"FailSetRootGraphId">>)]
    ELSE [resolver |-> [resolver EXCEPT !.group_id_tree = IdTree_new(group_id)],
          result |-> None]

\* Resolver::insert_group
insert_group(resolver, parent, child) ==
    LET r == IdTree_insert_id(resolver.group_id_tree, parent, child)
    IN [resolver |-> [resolver EXCEPT !.group_id_tree = r.tree],
        result |-> r.result]

\* Resolver::get_root_group_id
get_root_group_id(resolver) == IdTree_get_root_id(resolver.group_id_tree)

\* Resolver::get_graph_item_id_pair
get_graph_item_id_pair(resolver, item_kind, name) ==
    LET v == get_value(resolver.graph_items, item_kind, name)
    IN IF v = None
       THEN [ok |-> FALSE, value |-> <<0, 0>>,
             err |-> <<"NotExist", item_kind, name>>]
       ELSE [ok |-> TRUE, value |-> v[1], err |-> <<>>]

\* get_belong_group that takes the first component of the pair
get_belong_group_containing(resolver, name) ==
    IF name = None
    THEN get_root_group_id(resolver)
    ELSE LET r == get_graph_item_id_pair(resolver, "Group", name[1])
         IN [ok |-> r.ok, value |-> r.value[1], err |-> r.err]

\* Resolver::get_belong_group; name is an Option
get_belong_group(resolver, name) ==
    IF name = None
    THEN get_root_group_id(resolver)
    ELSE LET r == get_graph_item_id_pair(resolver, "Group", name[1])
         IN [ok |-> r.ok, value |-> r.value[2], err |-> r.err]

\* Resolver::get_ancestor_ids
get_ancestor_ids(resolver, group_id) ==
    IdTree_get_ancestor_ids(resolver.group_id_tree, group_id)

\* is_usable_graph_item_name that finds the name under any kind
is_usable_graph_item_name_any_kind(resolver, item_kind, name) ==
    \E k \in GraphItemKinds : is_usable_name(resolver.graph_items, k, name)

\* Resolver::is_usable_graph_item_name
is_usable_graph_item_name(resolver, item_kind, name) ==
    is_usable_name(resolver.graph_items, item_kind, name)

\* push_graph_item_value_or_override that binds the name to (item, group)
push_graph_item_value_or_override_swapped(resolver, item_kind, name, group_id, item_id) ==
    LET r == insert_value_or_override(resolver.graph_items, item_kind,
                                      Some(name), <<item_id, group_id>>)
    IN [resolver |-> [resolver EXCEPT !.graph_items = r.index],
        result |-> r.result]

\* Resolver::push_graph_item_value_or_override
push_graph_item_value_or_override(resolver, item_kind, name, group_id, item_id) ==
    LET r == insert_value_or_override(resolver.graph_items, item_kind,
                                      Some(name), <<group_id, item_id>>)
    IN [resolver |-> [resolver EXCEPT !.graph_items = r.index],
        result |-> r.result]

(***************************************************************************)
(* NodeItemBuilder                                                         *)
(* A builder is a record [belong_group, name] of Options.                  *)
(***************************************************************************)
Builders == [belong_group : OptNames, name : OptNames]

\* NodeItemBuilder::resolve_belong_group: Option<GroupId> and the error
\* pushed when the Resolver cannot name the group
resolve_belong_group(builder, resolver) ==
    LET r == get_belong_group(resolver, builder.belong_group)
    IN IF r.ok
       THEN [group |-> Some(r.value), errors |-> <<>>]
       ELSE [group |-> None, errors |-> <<r.err>>]

\* NodeItemBuilder::resolve_item
resolve_item(resolved_belong_group) ==
    IF resolved_belong_group = None
    THEN [item |-> None, errors |-> << <<"FailResolveBelongGroup">> >>]
    ELSE [item |-> Some([kind |-> "Node",
                         belong_group_id |-> resolved_belong_group[1]]),
          errors |-> <<>>]

\* NodeItemBuilder::resolve_item_option
resolve_item_option(builder, resolver) ==
    [option |-> Some([name |-> builder.name]),
     errors |-> IF builder.name # None
                   /\ is_usable_graph_item_name(resolver, "Node", builder.name[1])
                THEN << <<"AlreadyExist", "Node", builder.name[1]>> >>
                ELSE <<>>]

\* NodeItemBuilder::build: (Option<(item, option)>, errors)
build(builder, resolver) ==
    LET bg == resolve_belong_group(builder, resolver)
        it == resolve_item(bg.group)
        op == resolve_item_option(builder, resolver)
        errors == bg.errors \o it.errors \o op.errors
    IN IF it.item # None /\ op.option # None
       THEN [item |-> it.item, option |-> op.option[1], errors |-> errors]
       ELSE [item |-> None, option |-> [name |-> None], errors |-> errors]

(***************************************************************************)
(* EdgeItemBuilder                                                         *)
(* A builder is a record [belong_group, name, start, end] of Options;      *)
(* start and end hold a pair <<kind, name>>. An endpoint resolves to        *)
(* <<kind, <<group id, item id>> >>. Label and style do not enter the      *)
(* validation and are left out.                                            *)
(***************************************************************************)
OptEndpoints ==
    {None} \cup {Some(<<k, n>>) : k \in GraphItemKinds, n \in Names}

EdgeBuilders ==
    [belong_group : OptNames, name : OptNames,
     start : OptEndpoints, end : OptEndpoints]

\* Resolver::contains_group: the hierarchy holds the group
contains_group(resolver, group_id) ==
    IdTree_contains(resolver.group_id_tree, group_id)

\* resolver.get_ancestor_ids(group_id).contains(&id)
ancestors_contain(resolver, group_id, id) ==
    LET chain == get_ancestor_ids(resolver, group_id)
    IN /\ chain # None
       /\ \E i \in DOMAIN chain[1] : chain[1][i] = id

\* EdgeItemBuilder::resolve_belong_group
EdgeItemBuilder_resolve_belong_group(builder, resolver) ==
    LET r == get_belong_group(resolver, builder.belong_group)
    IN IF r.ok
       THEN [group |-> Some(r.value), errors |-> <<>>]
       ELSE [group |-> None, errors |-> <<r.err>>]

\* resolve_endpoint that tests the endpoint against the belonging group
\* itself and not against its ancestors
EdgeItemBuilder_resolve_endpoint_self_only(group_id, endpoint, resolver, not_specify_error) ==
    IF endpoint = None
    THEN [endpoint |-> None, errors |-> <<not_specify_error>>]
    ELSE LET kind == endpoint[1][1]
             name == endpoint[1][2]
             r == get_graph_item_id_pair(resolver, kind, name)
         IN IF ~r.ok
            THEN [endpoint |-> None, errors |-> <<r.err>>]
            ELSE IF kind = "Group" /\ group_id = r.value[2]
            THEN [endpoint |-> None,
                  errors |-> << <<"CannotSpecifyBelongGroupAsEndpoint",
                                  name>> >>]
            ELSE [endpoint |-> Some(<<kind, r.value>>), errors |-> <<>>]

\* resolve_endpoint that also refuses the groups below the belonging group
EdgeItemBuilder_resolve_endpoint_below(group_id, endpoint, resolver, not_specify_error) ==
    IF endpoint = None
    THEN [endpoint |-> None, errors |-> <<not_specify_error>>]
    ELSE LET kind == endpoint[1][1]
             name == endpoint[1][2]
             r == get_graph_item_id_pair(resolver, kind, name)
         IN IF ~r.ok
            THEN [endpoint |-> None, errors |-> <<r.err>>]
            ELSE IF kind = "Group"
                    /\ (\/ group_id = r.value[2]
                        \/ ancestors_contain(resolver, group_id, r.value[2])
                        \/ ancestors_contain(resolver, r.value[2], group_id))
            THEN [endpoint |-> None,
                  errors |-> << <<"CannotSpecifyBelongGroupAsEndpoint",
                                  name>> >>]
            ELSE [endpoint |-> Some(<<kind, r.value>>), errors |-> <<>>]

\* EdgeItemBuilder::resolve_endpoint
EdgeItemBuilder_resolve_endpoint(group_id, endpoint, resolver, not_specify_error) ==
    IF endpoint = None
    THEN [endpoint |-> None, errors |-> <<not_specify_error>>]
    ELSE LET kind == endpoint[1][1]
             name == endpoint[1][2]
             r == get_graph_item_id_pair(resolver, kind, name)
             endpoint_item_id == r.value[2]
             unknown == /\ group_id # endpoint_item_id
                        /\ ~contains_group(resolver, group_id)
             cannot_specify ==
                 \/ group_id = endpoint_item_id
                 \/ IF contains_group(resolver, group_id)
                    THEN ancestors_contain(resolver, group_id,
                                           endpoint_item_id)
                    ELSE TRUE
         IN IF ~r.ok
            THEN [endpoint |-> None, errors |-> <<r.err>>]
            ELSE IF kind # "Group"
            THEN [endpoint |-> Some(<<kind, r.value>>), errors |-> <<>>]
            ELSE IF cannot_specify
            THEN [endpoint |-> None,
                  errors |->
                      (IF unknown
                       THEN << <<"NotExist", "Group", name>> >>
                       ELSE <<>>)
                      \o << <<"CannotSpecifyBelongGroupAsEndpoint",
                              name>> >>]
            ELSE [endpoint |-> Some(<<kind, r.value>>), errors |-> <<>>]

\* the test of resolve_item on one endpoint: the edge's group is the
\* endpoint's group or one of its ancestors
EdgeItemBuilder_contains_endpoint(resolver, gid, endpoint_belong_group) ==
    \/ gid = endpoint_belong_group
    \/ ancestors_contain(resolver, endpoint_belong_group, gid)

\* resolve_item that builds the edge without the test on the groups
EdgeItemBuilder_resolve_item_unchecked(builder, resolver, resolved_belong_group, resolved_start, resolved_end) ==
    LET item ==
            IF resolved_belong_group = None
            THEN [item |-> None,
                  errors |-> << <<"FailResolveBelongGroup">> >>]
            ELSE IF resolved_start # None /\ resolved_end # None
            THEN [item |-> Some([kind |-> "Edge",
                       belong_group_id |-> resolved_belong_group[1],
                       start |-> <<resolved_start[1][1],
                                   resolved_start[1][2][1],
                                   resolved_start[1][2][2]>>,
                       end |-> <<resolved_end[1][1],
                                 resolved_end[1][2][1],
                                 resolved_end[1][2][2]>>]),
                  errors |-> <<>>]
            ELSE [item |-> None,
                  errors |-> << <<"FailResolveStartEndpoint">> >>]
    IN [item |-> item.item, option |-> [name |-> builder.name],
        errors |-> item.errors]

\* EdgeItemBuilder::resolve_item
EdgeItemBuilder_resolve_item(builder, resolver, resolved_belong_group, resolved_start, resolved_end) ==
    LET item ==
            IF resolved_belong_group = None
            THEN [item |-> None,
                  errors |-> << <<"FailResolveBelongGroup">> >>]
            ELSE IF resolved_start # None /\ resolved_end # None
            THEN IF /\ EdgeItemBuilder_contains_endpoint(
                           resolver, resolved_belong_group[1],
                           resolved_start[1][2][1])
                    /\ EdgeItemBuilder_contains_endpoint(
                           resolver, resolved_belong_group[1],
                           resolved_end[1][2][1])
                 THEN [item |-> Some([kind |-> "Edge",
                            belong_group_id |-> resolved_belong_group[1],
                            start |-> <<resolved_start[1][1],
                                        resolved_start[1][2][1],
                                        resolved_start[1][2][2]>>,
                            end |-> <<resolved_end[1][1],
                                      resolved_end[1][2][1],
                                      resolved_end[1][2][2]>>]),
                       errors |-> <<>>]
                 ELSE [item |-> None,
                       errors |-> << <<"InappropriateGroup">> >>]
            ELSE IF resolved_start = None /\ resolved_end = None
            THEN [item |-> None,
                  errors |-> << <<"FailResolveStartEndpoint">>,
                                <<"FailResolveEndEndpoint">> >>]
            ELSE IF resolved_start = None
            THEN [item |-> None,
                  errors |-> << <<"FailResolveStartEndpoint">> >>]
            ELSE [item |-> None,
                  errors |-> << <<"FailResolveEndEndpoint">> >>]
        option_errors ==
            IF builder.name # None
               /\ is_usable_graph_item_name(resolver, "Edge", builder.name[1])
            THEN << <<"AlreadyExist", "Edge", builder.name[1]>> >>
            ELSE <<>>
    IN [item |-> item.item, option |-> [name |-> builder.name],
        errors |-> item.errors \o option_errors]

\* build that resolves the endpoints whatever the belonging group gave
EdgeItemBuilder_endpoint_always(bg, endpoint, resolver, not_specify_error) ==
    EdgeItemBuilder_resolve_endpoint(
        IF bg.group # None THEN bg.group[1] ELSE DEFAULT_ITEM_ID,
        endpoint, resolver, not_specify_error)

\* the endpoint a builder resolves once its belonging group is known
EdgeItemBuilder_endpoint(bg, endpoint, resolver, not_specify_error) ==
    IF bg.group # None
    THEN EdgeItemBuilder_resolve_endpoint(bg.group[1], endpoint, resolver,
                                          not_specify_error)
    ELSE [endpoint |-> None, errors |-> <<>>]

\* build that stops at the first error it meets
EdgeItemBuilder_build_first_error(builder, resolver) ==
    LET bg == EdgeItemBuilder_resolve_belong_group(builder, resolver)
        start == EdgeItemBuilder_endpoint(bg, builder.start, resolver,
                                          <<"NotSpecifyStartEndpoint">>)
        end == EdgeItemBuilder_endpoint(bg, builder.end, resolver,
                                        <<"NotSpecifyEndEndpoint">>)
        it == EdgeItemBuilder_resolve_item(builder, resolver, bg.group,
                                           start.endpoint, end.endpoint)
        errors == bg.errors \o start.errors \o end.errors \o it.errors
    IN [item |-> it.item, option |-> it.option,
        errors |-> IF errors = <<>> THEN <<>> ELSE <<errors[1]>>]

\* EdgeItemBuilder::build: (Option<(item, option)>, errors)
EdgeItemBuilder_build(builder, resolver) ==
    LET bg == EdgeItemBuilder_resolve_belong_group(builder, resolver)
        start == EdgeItemBuilder_endpoint(bg, builder.start, resolver,
                                          <<"NotSpecifyStartEndpoint">>)
        end == EdgeItemBuilder_endpoint(bg, builder.end, resolver,
                                        <<"NotSpecifyEndEndpoint">>)
        it == EdgeItemBuilder_resolve_item(builder, resolver, bg.group,
                                           start.endpoint, end.endpoint)
    IN [item |-> it.item, option |-> it.option,
        errors |-> bg.errors \o start.errors \o end.errors \o it.errors]

\* item_builder.build(resolver) as ItemArena::push calls it: the build of
\* the builder's type
item_builder_build(item_builder, resolver) ==
    IF "start" \in DOMAIN item_builder
    THEN EdgeItemBuilder_build(item_builder, resolver)
    ELSE build(item_builder, resolver)

(***************************************************************************)
(* The commit action handed to push (a caller-supplied FnOnce).            *)
(*   strict : the closure of the arena's tests: registers the name, and    *)
(*            succeeds iff that produced no error                          *)
(*   soft   : registers the name and commits even on Override              *)
(*   veto   : refuses without an error and without touching the Resolver   *)
(*   reject : refuses with an error of its own                             *)
(*   warn   : commits and returns an error of its own                      *)
(***************************************************************************)
ActionKinds == {"strict", "soft", "veto", "reject", "warn"}

\* the commit actions that register the entity's name in the Resolver
RegisteringActions == {"strict", "soft"}

\* registration that leaves a name that is already bound where it was
register_name_keep(resolver, kind, group_id, item_id, option) ==
    IF option.name # None
       /\ ~is_usable_graph_item_name(resolver, kind, option.name[1])
    THEN LET r == push_graph_item_value_or_override(
                      resolver, kind, option.name[1], group_id, item_id)
         IN [resolver |-> r.resolver, errors |-> r.result]
    ELSE [resolver |-> resolver, errors |-> <<>>]

\* the registration step shared by strict and soft
register_name(resolver, kind, group_id, item_id, option) ==
    IF option.name # None
    THEN LET r == push_graph_item_value_or_override(
                      resolver, kind, option.name[1], group_id, item_id)
         IN [resolver |-> r.resolver, errors |-> r.result]
    ELSE [resolver |-> resolver, errors |-> <<>>]

CommitAction(act, resolver, kind, group_id, item_id, option) ==
    LET reg == register_name(resolver, kind, group_id, item_id, option)
    IN CASE act = "strict" ->
              [resolver |-> reg.resolver, result |-> (reg.errors = <<>>),
               errors |-> reg.errors]
         [] act = "soft" ->
              [resolver |-> reg.resolver, result |-> TRUE,
               errors |-> reg.errors]
         [] act = "veto" ->
              [resolver |-> resolver, result |-> FALSE, errors |-> <<>>]
         [] act = "reject" ->
              [resolver |-> resolver, result |-> FALSE,
               errors |-> << <<"ActionFail">> >>]
         [] OTHER ->
              [resolver |-> resolver, result |-> TRUE,
               errors |-> << <<"ActionWarn">> >>]

(***************************************************************************)
(* ItemArena                                                               *)
(***************************************************************************)
\* get_push_index without the increment: the counter is read and returned
get_push_index_stale(pushed) == [counter |-> pushed, id |-> pushed]

\* get_push_index whose increment is not written back to the counter
get_push_index_unsaved(pushed) == [counter |-> pushed, id |-> pushed + 1]

\* get_push_index that reads the counter before incrementing it
get_push_index_post(pushed) == [counter |-> pushed + 1, id |-> pushed]

\* ItemArena::get_push_index: increment under the lock, then read.
\* counter is the new value of pushed_index, id the value returned.
get_push_index(pushed) == [counter |-> pushed + 1, id |-> pushed + 1]

\* ItemArena::get_default_index
get_default_index == DEFAULT_ITEM_ID

\* push whose None arm drops the builder's errors
push_unbuilt_no_errors(pushed, store, resolver, errors) ==
    [pushed_index |-> pushed, arena |-> store, resolver |-> resolver,
     ret |-> <<FALSE, <<>> >>, built |-> FALSE, result |-> None,
     berrors |-> errors, aerrors |-> <<>>, key |-> None,
     overwrote |-> FALSE, calls |-> <<"build">>]

\* push whose None arm draws an id before it returns
push_unbuilt_consuming(pushed, store, resolver, errors) ==
    [pushed_index |-> get_push_index(pushed).counter, arena |-> store,
     resolver |-> resolver,
     ret |-> <<FALSE, errors>>, built |-> FALSE, result |-> None,
     berrors |-> errors, aerrors |-> <<>>, key |-> None,
     overwrote |-> FALSE, calls |-> <<"build", "get_push_index">>]

\* ItemArena::push, the arm taken when the builder yields no entity
push_unbuilt(pushed, store, resolver, errors) ==
    [pushed_index |-> pushed, arena |-> store, resolver |-> resolver,
     ret |-> <<FALSE, errors>>, built |-> FALSE, result |-> None,
     berrors |-> errors, aerrors |-> <<>>, key |-> None,
     overwrote |-> FALSE, calls |-> <<"build">>]

\* push that inserts whatever the commit action reported
push_store_always(store, result, key, item) == Put(store, key, item)

\* ItemArena::push, the conditional insert that follows the commit action
push_store(store, result, key, item) ==
    IF result THEN Put(store, key, item) ELSE store

\* push that invokes the commit action again when it reported failure
push_built_twice(pushed, store, resolver, b, act) ==
    LET item == b.item[1]
        group_id == item.belong_group_id
        p == get_push_index(pushed)
        a1 == CommitAction(act, resolver, item.kind, group_id, p.id, b.option)
        a2 == CommitAction(act, a1.resolver, item.kind, group_id, p.id,
                           b.option)
        a == IF a1.result
             THEN a1
             ELSE [resolver |-> a2.resolver, result |-> a2.result,
                   errors |-> a1.errors \o a2.errors]
    IN [pushed_index |-> p.counter,
        arena |-> push_store(store, a.result, <<group_id, p.id>>, item),
        resolver |-> a.resolver,
        ret |-> <<a.result, b.errors \o a.errors>>,
        built |-> TRUE, result |-> Some(a.result),
        berrors |-> b.errors, aerrors |-> a.errors,
        key |-> Some(<<group_id, p.id>>),
        overwrote |-> a.result /\ <<group_id, p.id>> \in DOMAIN store,
        calls |-> <<"build", "get_push_index", "action">>
                  \o (IF a1.result THEN <<>> ELSE <<"action">>)
                  \o (IF a.result THEN <<"insert">> ELSE <<>>)]

\* ItemArena::push, the arm taken when the builder yields (item, option);
\* b is the builder's result
push_built(pushed, store, resolver, b, act) ==
    LET item == b.item[1]
        group_id == item.belong_group_id
        p == get_push_index(pushed)
        a == CommitAction(act, resolver, item.kind, group_id, p.id, b.option)
    IN [pushed_index |-> p.counter,
        arena |-> push_store(store, a.result, <<group_id, p.id>>, item),
        resolver |-> a.resolver,
        ret |-> <<a.result, b.errors \o a.errors>>,
        built |-> TRUE, result |-> Some(a.result),
        berrors |-> b.errors, aerrors |-> a.errors,
        key |-> Some(<<group_id, p.id>>),
        overwrote |-> a.result /\ <<group_id, p.id>> \in DOMAIN store,
        calls |-> <<"build", "get_push_index", "action">>
                  \o (IF a.result THEN <<"insert">> ELSE <<>>)]

\* ItemArena::push as a function of the state it reads.
\* calls lists the callbacks and stores push performs, in program order;
\* key is the (group id, item id) handed to the commit action; overwrote
\* tells whether arena.insert replaced an entity already stored at the key.
push(pushed, store, resolver, item_builder, act) ==
    LET b == item_builder_build(item_builder, resolver)
    IN IF b.item = None
       THEN push_unbuilt(pushed, store, resolver, b.errors)
       ELSE push_built(pushed, store, resolver, b, act)

\* ItemArena::get
get(store, group_id, index) ==
    IF <<group_id, index>> \in DOMAIN store
    THEN Some(store[<<group_id, index>>])
    ELSE None

\* ItemArena::get_default
get_default(store, group_id) == get(store, group_id, get_default_index)

\* Bound<&GraphItemId>: <<"Included", id>>, <<"Excluded", id>>, <<"Unbounded">>
ItemBounds ==
    {<<"Unbounded">>}
        \cup {<<"Included", i>> : i \in 0..MaxPush}
        \cup {<<"Excluded", i>> : i \in 0..MaxPush}

\* range_with_group: Bound<&GraphItemId> to Bound<(GroupId, GraphItemId)>
range_with_group(group_id, bound) ==
    CASE bound[1] = "Included" -> <<"Included", <<group_id, bound[2]>> >>
      [] bound[1] = "Excluded" -> <<"Excluded", <<group_id, bound[2]>> >>
      [] OTHER -> <<"Unbounded">>

\* Ord of the tuple keys (GroupId, GraphItemId): lexicographic
KeyLess(k1, k2) == k1[1] < k2[1] \/ (k1[1] = k2[1] /\ k1[2] < k2[2])

RECURSIVE KeysAscending(_)
KeysAscending(keys) ==
    IF keys = {}
    THEN <<>>
    ELSE LET m == CHOOSE k \in keys : \A o \in keys \ {k} : KeyLess(k, o)
         IN <<m>> \o KeysAscending(keys \ {m})

\* BTreeMap::range over (start, end): panics when start > end, or when
\* start = end and both are excluded; else the keys in range, ascending
btree_range(store, start, end) ==
    LET bounded == start[1] # "Unbounded" /\ end[1] # "Unbounded"
        inverted == /\ bounded
                    /\ \/ KeyLess(end[2], start[2])
                       \/ /\ start[2] = end[2]
                          /\ start[1] = "Excluded"
                          /\ end[1] = "Excluded"
        above(k) == CASE start[1] = "Included" -> ~KeyLess(k, start[2])
                      [] start[1] = "Excluded" -> KeyLess(start[2], k)
                      [] OTHER -> TRUE
        below(k) == CASE end[1] = "Included" -> ~KeyLess(end[2], k)
                      [] end[1] = "Excluded" -> KeyLess(k, end[2])
                      [] OTHER -> TRUE
    IN IF inverted
       THEN [panic |-> TRUE, keys |-> <<>>]
       ELSE [panic |-> FALSE,
             keys |-> KeysAscending({k \in DOMAIN store : above(k) /\ below(k)})]

\* ItemArena::range: the keys of the entries the returned Range yields
range(store, group_id, start_bound, end_bound) ==
    btree_range(store, range_with_group(group_id, start_bound),
                range_with_group(group_id, end_bound))

\* ItemArena::count
count(store) == Cardinality(DOMAIN store)

\* I::default(): the default item of the arena's item type
DefaultItem(group_id) == [kind |-> "Node", belong_group_id |-> group_id]
\* O::default()
DefaultOption == [name |-> None]

\* push_default that inserts the entity before it looks at what the commit
\* action reported
push_default_insert_first(store, resolver, act, dgroup) ==
    LET item == DefaultItem(dgroup)
        group_id == item.belong_group_id
        push_index == get_default_index
        a == CommitAction(act, resolver, item.kind, group_id, push_index,
                          DefaultOption)
    IN [panic |-> ~a.result \/ a.errors # <<>>,
        arena |-> Put(store, <<group_id, push_index>>, item),
        resolver |-> a.resolver,
        result |-> Some(a.result), aerrors |-> a.errors,
        key |-> Some(<<group_id, push_index>>),
        overwrote |-> <<group_id, push_index>> \in DOMAIN store,
        calls |-> <<"action", "insert">>]

\* ItemArena::push_default; panic is TRUE when the call aborts the process
push_default(store, resolver, act, dgroup) ==
    LET item == DefaultItem(dgroup)
        group_id == item.belong_group_id
        push_index == get_default_index
        a == CommitAction(act, resolver, item.kind, group_id, push_index,
                          DefaultOption)
    IN IF ~a.result \/ a.errors # <<>>
       THEN [panic |-> TRUE, arena |-> store, resolver |-> a.resolver,
             result |-> Some(a.result), aerrors |-> a.errors,
             key |-> Some(<<group_id, push_index>>), overwrote |-> FALSE,
             calls |-> <<"action", "panic">>]
       ELSE [panic |-> FALSE,
             arena |-> Put(store, <<group_id, push_index>>, item),
             resolver |-> a.resolver,
             result |-> Some(a.result), aerrors |-> a.errors,
             key |-> Some(<<group_id, push_index>>),
             overwrote |-> <<group_id, push_index>> \in DOMAIN store,
             calls |-> <<"action", "insert">>]

\* ItemArena::push_user_item_as_default
push_user_item_as_default(store, resolver, item_builder, act) ==
    LET b == item_builder_build(item_builder, resolver)
    IN IF b.item = None
       THEN [arena |-> store, resolver |-> resolver,
             ret |-> <<FALSE, b.errors>>, built |-> FALSE, result |-> None,
             berrors |-> b.errors, aerrors |-> <<>>, key |-> None,
             overwrote |-> FALSE, calls |-> <<"build">>]
       ELSE LET item == b.item[1]
                group_id == item.belong_group_id
                push_index == get_default_index
                a == CommitAction(act, resolver, item.kind, group_id,
                                  push_index, b.option)
            IN [arena |-> IF a.result
                          THEN Put(store, <<group_id, push_index>>, item)
                          ELSE store,
                resolver |-> a.resolver,
                ret |-> <<a.result, b.errors \o a.errors>>,
                built |-> TRUE, result |-> Some(a.result),
                berrors |-> b.errors, aerrors |-> a.errors,
                key |-> Some(<<group_id, push_index>>),
                overwrote |-> a.result
                              /\ <<group_id, push_index>> \in DOMAIN store,
                calls |-> <<"build", "action">>
                          \o (IF a.result THEN <<"insert">> ELSE <<>>)]

(***************************************************************************)
(* DoubleEndedPeekable                                                     *)
(* The wrapped iterator is the sequence of the items it has not yielded.   *)
(* peeked and peeked_last are Option<Option<Item>>: None, Some(None) or    *)
(* Some(Some(v)). A call is a record [self, ret] of the iterator after the *)
(* call and the value returned.                                            *)
(***************************************************************************)
\* Iterator::next of the wrapped iterator
Iter_next(iter) ==
    IF iter = <<>>
    THEN [iter |-> iter, ret |-> None]
    ELSE [iter |-> Tail(iter), ret |-> Some(Head(iter))]

\* DoubleEndedIterator::next_back of the wrapped iterator
Iter_next_back(iter) ==
    IF iter = <<>>
    THEN [iter |-> iter, ret |-> None]
    ELSE [iter |-> SubSeq(iter, 1, Len(iter) - 1),
          ret |-> Some(iter[Len(iter)])]

\* Option::flatten
flatten(opt) == IF opt = None THEN None ELSE opt[1]

\* DoubleEndedPeekable::from_iter
DoubleEndedPeekable_from_iter(iter) ==
    [iter |-> iter, peeked |-> None, peeked_last |-> None]

\* DoubleEndedPeekable::next
DoubleEndedPeekable_next(self) ==
    IF self.peeked # None
    THEN [self |-> [self EXCEPT !.peeked = None], ret |-> self.peeked[1]]
    ELSE IF Len(self.iter) # 0
    THEN [self |-> [self EXCEPT !.iter = Iter_next(self.iter).iter],
          ret |-> Iter_next(self.iter).ret]
    ELSE [self |-> [self EXCEPT !.peeked_last = None],
          ret |-> flatten(self.peeked_last)]

\* DoubleEndedPeekable::next_back
DoubleEndedPeekable_next_back(self) ==
    LET taken == [self EXCEPT !.peeked_last = None]
        back == Iter_next_back(self.iter)
    IN IF self.peeked_last # None /\ self.peeked_last[1] # None
       THEN [self |-> taken, ret |-> self.peeked_last[1]]
       ELSE IF self.peeked = None
       THEN [self |-> [taken EXCEPT !.iter = back.iter], ret |-> back.ret]
       ELSE IF self.peeked[1] = None
       THEN [self |-> taken, ret |-> None]
       ELSE IF back.ret # None
       THEN [self |-> [taken EXCEPT !.iter = back.iter], ret |-> back.ret]
       ELSE [self |-> [taken EXCEPT !.peeked = Some(None)],
             ret |-> self.peeked[1]]

\* DoubleEndedPeekable::peek
DoubleEndedPeekable_peek(self) ==
    IF self.peeked = None
    THEN [self |-> [self EXCEPT !.iter = Iter_next(self.iter).iter,
                                !.peeked = Some(Iter_next(self.iter).ret)],
          ret |-> Iter_next(self.iter).ret]
    ELSE [self |-> self, ret |-> self.peeked[1]]

\* DoubleEndedPeekable::peek_back
DoubleEndedPeekable_peek_back(self) ==
    IF self.peeked_last = None
    THEN [self |-> [self EXCEPT
                       !.iter = Iter_next_back(self.iter).iter,
                       !.peeked_last = Some(Iter_next_back(self.iter).ret)],
          ret |-> Iter_next_back(self.iter).ret]
    ELSE [self |-> self, ret |-> self.peeked_last[1]]

\* the items a look-ahead cache holds: 1 for Some(Some(_)), else 0
held(cache) == IF cache # None /\ cache[1] # None THEN 1 ELSE 0

\* size_hint that reports the length of the wrapped iterator alone
DoubleEndedPeekable_size_hint_unpeeked(self) ==
    <<Len(self.iter), Some(Len(self.iter))>>

\* DoubleEndedPeekable::size_hint: (lo, hi)
DoubleEndedPeekable_size_hint(self) ==
    IF self.peeked = Some(None) /\ self.peeked_last = Some(None)
    THEN <<0, Some(0)>>
    ELSE <<Len(self.iter) + held(self.peeked) + held(self.peeked_last),
           Some(Len(self.iter) + held(self.peeked)
                + held(self.peeked_last))>>

\* DoubleEndedPeekable::count
DoubleEndedPeekable_count(self) ==
    LET head == IF self.peeked = None
                THEN Len(self.iter)
                ELSE IF self.peeked[1] = None
                THEN 0
                ELSE 1 + Len(self.iter)
        tail == held(self.peeked_last)
    IN head + tail

\* Iterator::nth of the wrapped iterator: n elements are skipped and the
\* next is returned; a shorter iterator is emptied and returns None
Iter_nth(iter, n) ==
    IF n < Len(iter)
    THEN [iter |-> SubSeq(iter, n + 2, Len(iter)), ret |-> Some(iter[n + 1])]
    ELSE [iter |-> <<>>, ret |-> None]

\* DoubleEndedPeekable::nth
DoubleEndedPeekable_nth(self, n) ==
    LET taken == [self EXCEPT !.peeked = None]
    IN IF self.peeked = None
       THEN [self |-> [taken EXCEPT !.iter = Iter_nth(self.iter, n).iter],
             ret |-> Iter_nth(self.iter, n).ret]
       ELSE IF self.peeked[1] = None
       THEN [self |-> taken, ret |-> None]
       ELSE IF n = 0
       THEN [self |-> taken, ret |-> self.peeked[1]]
       ELSE IF held(self.peeked_last) = 1 /\ Len(self.iter) = n - 1
       THEN [self |-> [taken EXCEPT !.peeked_last = None],
             ret |-> flatten(self.peeked_last)]
       ELSE [self |-> [taken EXCEPT
                          !.iter = Iter_nth(self.iter, n - 1).iter],
             ret |-> Iter_nth(self.iter, n - 1).ret]

(***************************************************************************)
(* IterGroupByAll, IterGroupByList, IterGroupById                          *)
(* The storage is a BTreeMap<GroupId, BTreeMap<ItemId, I>>: a function     *)
(* from the group ids it holds to the set of item ids of the group. An     *)
(* iterator over a BTreeMap is the sequence of its keys in ascending       *)
(* order, and an item is yielded as its item id.                           *)
(***************************************************************************)
\* btree_map::Iter: the keys of the map in ascending order
RECURSIVE btree_iter(_)
btree_iter(keys) ==
    IF keys = {}
    THEN <<>>
    ELSE LET m == CHOOSE x \in keys : \A y \in keys : x <= y
         IN <<m>> \o btree_iter(keys \ {m})

\* the loop of next with the comparison of the item ids reversed
RECURSIVE next_target_first(_, _, _, _)
next_target_first(peeks, index, target_index, min_item_id) ==
    IF index > Len(peeks)
    THEN target_index
    ELSE IF peeks[index] # None
            /\ (min_item_id = None \/ min_item_id[1] < peeks[index][1])
    THEN next_target_first(peeks, index + 1, Some(index),
                           Some(peeks[index][1]))
    ELSE next_target_first(peeks, index + 1, target_index, min_item_id)

\* the loop of IterGroupByAll::next over the partitions: peeks holds what
\* peek returned for each partition; the result is target_index
RECURSIVE next_target(_, _, _, _)
next_target(peeks, index, target_index, min_item_id) ==
    IF index > Len(peeks)
    THEN target_index
    ELSE IF peeks[index] # None
            /\ (min_item_id = None \/ min_item_id[1] >= peeks[index][1])
    THEN next_target(peeks, index + 1, Some(index), Some(peeks[index][1]))
    ELSE next_target(peeks, index + 1, target_index, min_item_id)

\* the loop of IterGroupByAll::next_back over the partitions
RECURSIVE next_back_target(_, _, _, _)
next_back_target(peeks, index, target_index, max_item_id) ==
    IF index > Len(peeks)
    THEN target_index
    ELSE IF peeks[index] # None
            /\ (max_item_id = None \/ max_item_id[1] <= peeks[index][1])
    THEN next_back_target(peeks, index + 1, Some(index),
                          Some(peeks[index][1]))
    ELSE next_back_target(peeks, index + 1, target_index, max_item_id)

\* IterGroupByAll::next: every partition is peeked, then the target yields
IterGroupByAll_next(self) ==
    LET peeks == [i \in DOMAIN self.iters |->
                     DoubleEndedPeekable_peek(self.iters[i])]
        iters == [i \in DOMAIN self.iters |-> peeks[i].self]
        target_index ==
            next_target([i \in DOMAIN self.iters |-> peeks[i].ret],
                        1, None, None)
    IN IF target_index = None
       THEN [self |-> [self EXCEPT !.iters = iters], ret |-> None]
       ELSE LET n == DoubleEndedPeekable_next(iters[target_index[1]])
            IN [self |-> [self EXCEPT !.iters =
                             [iters EXCEPT ![target_index[1]] = n.self]],
                ret |-> n.ret]

\* IterGroupByAll::next_back
IterGroupByAll_next_back(self) ==
    LET peeks == [i \in DOMAIN self.iters |->
                     DoubleEndedPeekable_peek_back(self.iters[i])]
        iters == [i \in DOMAIN self.iters |-> peeks[i].self]
        target_index ==
            next_back_target([i \in DOMAIN self.iters |-> peeks[i].ret],
                             1, None, None)
    IN IF target_index = None
       THEN [self |-> [self EXCEPT !.iters = iters], ret |-> None]
       ELSE LET n == DoubleEndedPeekable_next_back(iters[target_index[1]])
            IN [self |-> [self EXCEPT !.iters =
                             [iters EXCEPT ![target_index[1]] = n.self]],
                ret |-> n.ret]

\* the upper bound of the running hint joined with that of one partition
next_max(hint_max, iter_max) ==
    IF hint_max = None /\ iter_max = None THEN None
    ELSE IF iter_max = None THEN hint_max
    ELSE IF hint_max = None THEN iter_max
    ELSE Some(hint_max[1] + iter_max[1])

\* the loop of size_hint over the partitions from position index on
RECURSIVE size_hint_loop(_, _, _)
size_hint_loop(iters, index, hint) ==
    IF index > Len(iters)
    THEN hint
    ELSE size_hint_loop(iters, index + 1,
             <<hint[1] + DoubleEndedPeekable_size_hint(iters[index])[1],
               next_max(hint[2],
                        DoubleEndedPeekable_size_hint(iters[index])[2])>>)

\* IterGroupByAll::size_hint
IterGroupByAll_size_hint(self) == size_hint_loop(self.iters, 1, <<0, None>>)

\* ExactSizeIterator::len, which the merge iterators do not override: it
\* asserts that the upper bound of size_hint is Some(lower)
ExactSizeIterator_len(hint) ==
    [panic |-> hint[2] # Some(hint[1]), ret |-> hint[1]]

\* IterGroupByAll::from_btree_map
IterGroupByAll_from_btree_map(map) ==
    LET groups == btree_iter(DOMAIN map)
    IN [iters |-> [i \in DOMAIN groups |->
                      DoubleEndedPeekable_from_iter(
                          btree_iter(map[groups[i]]))]]

\* IterGroupByList::next: the text of IterGroupByAll::next
IterGroupByList_next(self) == IterGroupByAll_next(self)

\* IterGroupByList::next_back: the text of IterGroupByAll::next_back
IterGroupByList_next_back(self) == IterGroupByAll_next_back(self)

\* from_btree_map that takes every group of the map
IterGroupByList_from_btree_map_all(groups, map) ==
    LET list == btree_iter(DOMAIN map)
    IN [groups |-> list,
        iters |-> [i \in DOMAIN list |->
                      DoubleEndedPeekable_from_iter(
                          btree_iter(map[list[i]]))]]

\* IterGroupByList::from_btree_map; groups is the set of the ids of the
\* slice, which the code only tests for membership
IterGroupByList_from_btree_map(groups, map) ==
    LET list == btree_iter({g \in DOMAIN map : g \in groups})
    IN [groups |-> list,
        iters |-> [i \in DOMAIN list |->
                      DoubleEndedPeekable_from_iter(
                          btree_iter(map[list[i]]))]]

\* IterGroupByList::size_hint
IterGroupByList_size_hint(self) == size_hint_loop(self.iters, 1, <<0, None>>)

\* the iterator of one group's map when the items are kept as the pairs
\* (item id, entity) the code yields; the entity stored under an item id
\* of a group is named by the id of the group
entries(group_id, keys) ==
    [i \in DOMAIN btree_iter(keys) |-> <<btree_iter(keys)[i], group_id>>]

\* the pattern Some((item_id, _)) of next and next_back applied to what
\* peek returned for each partition
item_ids(peeks) ==
    [i \in DOMAIN peeks |->
        IF peeks[i] = None THEN None ELSE Some(peeks[i][1][1])]

\* IterGroupByAll::from_btree_map over (item id, entity) pairs
IterGroupByAll_from_btree_map_of_entries(map) ==
    LET groups == btree_iter(DOMAIN map)
    IN [iters |-> [i \in DOMAIN groups |->
                      DoubleEndedPeekable_from_iter(
                          entries(groups[i], map[groups[i]]))]]

\* IterGroupByAll::next over (item id, entity) pairs
IterGroupByAll_next_of_entries(self) ==
    LET peeks == [i \in DOMAIN self.iters |->
                     DoubleEndedPeekable_peek(self.iters[i])]
        iters == [i \in DOMAIN self.iters |-> peeks[i].self]
        target_index ==
            next_target(item_ids([i \in DOMAIN self.iters |-> peeks[i].ret]),
                        1, None, None)
    IN IF target_index = None
       THEN [self |-> [self EXCEPT !.iters = iters], ret |-> None]
       ELSE LET n == DoubleEndedPeekable_next(iters[target_index[1]])
            IN [self |-> [self EXCEPT !.iters =
                             [iters EXCEPT ![target_index[1]] = n.self]],
                ret |-> n.ret]

\* IterGroupByAll::next_back over (item id, entity) pairs
IterGroupByAll_next_back_of_entries(self) ==
    LET peeks == [i \in DOMAIN self.iters |->
                     DoubleEndedPeekable_peek_back(self.iters[i])]
        iters == [i \in DOMAIN self.iters |-> peeks[i].self]
        target_index ==
            next_back_target(
                item_ids([i \in DOMAIN self.iters |-> peeks[i].ret]),
                1, None, None)
    IN IF target_index = None
       THEN [self |-> [self EXCEPT !.iters = iters], ret |-> None]
       ELSE LET n == DoubleEndedPeekable_next_back(iters[target_index[1]])
            IN [self |-> [self EXCEPT !.iters =
                             [iters EXCEPT ![target_index[1]] = n.self]],
                ret |-> n.ret]

\* IterGroupByList::from_btree_map over (item id, entity) pairs
IterGroupByList_from_btree_map_of_entries(groups, map) ==
    LET list == btree_iter({g \in DOMAIN map : g \in groups})
    IN [groups |-> list,
        iters |-> [i \in DOMAIN list |->
                      DoubleEndedPeekable_from_iter(
                          entries(list[i], map[list[i]]))]]

\* IterGroupByList::next over (item id, entity) pairs
IterGroupByList_next_of_entries(self) ==
    LET peeks == [i \in DOMAIN self.iters |->
                     DoubleEndedPeekable_peek(self.iters[i])]
        iters == [i \in DOMAIN self.iters |-> peeks[i].self]
        target_index ==
            next_target(item_ids([i \in DOMAIN self.iters |-> peeks[i].ret]),
                        1, None, None)
    IN IF target_index = None
       THEN [self |-> [self EXCEPT !.iters = iters], ret |-> None]
       ELSE LET n == DoubleEndedPeekable_next(iters[target_index[1]])
            IN [self |-> [self EXCEPT !.iters =
                             [iters EXCEPT ![target_index[1]] = n.self]],
                ret |-> n.ret]

\* IterGroupByList::next_back over (item id, entity) pairs
IterGroupByList_next_back_of_entries(self) ==
    LET peeks == [i \in DOMAIN self.iters |->
                     DoubleEndedPeekable_peek_back(self.iters[i])]
        iters == [i \in DOMAIN self.iters |-> peeks[i].self]
        target_index ==
            next_back_target(
                item_ids([i \in DOMAIN self.iters |-> peeks[i].ret]),
                1, None, None)
    IN IF target_index = None
       THEN [self |-> [self EXCEPT !.iters = iters], ret |-> None]
       ELSE LET n == DoubleEndedPeekable_next_back(iters[target_index[1]])
            IN [self |-> [self EXCEPT !.iters =
                             [iters EXCEPT ![target_index[1]] = n.self]],
                ret |-> n.ret]

\* IterGroupByList::using_groups
using_groups(self) == self.groups

\* from_btree_map that takes the first group of the map when the map does
\* not hold the group
IterGroupById_from_btree_map_first(group_id, map) ==
    [group_id |-> group_id,
     inner_iter |-> IF group_id \in DOMAIN map
                    THEN Some(btree_iter(map[group_id]))
                    ELSE IF DOMAIN map = {}
                    THEN None
                    ELSE Some(btree_iter(map[btree_iter(DOMAIN map)[1]]))]

\* IterGroupById::from_btree_map
IterGroupById_from_btree_map(group_id, map) ==
    [group_id |-> group_id,
     inner_iter |-> IF group_id \in DOMAIN map
                    THEN Some(btree_iter(map[group_id]))
                    ELSE None]

\* IterGroupById::next
IterGroupById_next(self) ==
    IF self.inner_iter = None
    THEN [self |-> self, ret |-> None]
    ELSE [self |-> [self EXCEPT !.inner_iter =
                       Some(Iter_next(self.inner_iter[1]).iter)],
          ret |-> Iter_next(self.inner_iter[1]).ret]

\* IterGroupById::next_back
IterGroupById_next_back(self) ==
    IF self.inner_iter = None
    THEN [self |-> self, ret |-> None]
    ELSE [self |-> [self EXCEPT !.inner_iter =
                       Some(Iter_next_back(self.inner_iter[1]).iter)],
          ret |-> Iter_next_back(self.inner_iter[1]).ret]

\* IterGroupById::nth_back: the inner iterator's nth is what is called
IterGroupById_nth_back(self, n) ==
    IF self.inner_iter = None
    THEN [self |-> self, ret |-> None]
    ELSE [self |-> [self EXCEPT !.inner_iter =
                       Some(Iter_nth(self.inner_iter[1], n).iter)],
          ret |-> Iter_nth(self.inner_iter[1], n).ret]

\* IterGroupById::size_hint
IterGroupById_size_hint(self) ==
    IF self.inner_iter = None
    THEN <<0, Some(0)>>
    ELSE <<Len(self.inner_iter[1]), Some(Len(self.inner_iter[1]))>>

\* ExactSizeIterator::len of IterGroupById: the lower bound of size_hint
IterGroupById_len(self) == IterGroupById_size_hint(self)[1]

\* IterGroupById::get_group_id
get_group_id(self) == self.group_id

\* IterGroupById::has_iter
has_iter(self) == self.inner_iter # None

(***************************************************************************)
(* State                                                                   *)
(***************************************************************************)
VARIABLES
    pushed_index,   \* ItemArena.pushed_index: the value behind the mutex
    arena,          \* ItemArena.arena: (group id, item id) -> item
    resolver,       \* the Resolver handed to push
    default_group,  \* belonging group of I::default(), fixed by the item type
    panicked,       \* TRUE once a call has aborted the process
    log,            \* history: one record per commit action invoked by push
    last,           \* history: what the last call did and returned
    \* threads that allocate ids through clones of one Arc<Mutex<GraphItemId>>
    mutex,          \* 0 when the mutex is free, else the thread holding it
    tpc,            \* position of each thread inside get_push_index
    treg,           \* the value each thread loaded for its increment
    got,            \* history: the ids each thread's calls returned
    \* several ItemArena instances
    cells,          \* the allocated Arc<Mutex<GraphItemId>> cells: cell -> value
    insts,          \* instance -> [cell, arena]
    caller,         \* history: the instance the last call was made on
    \* a NameRefIndex on its own, as in the tests of name_ref.rs
    name_ref,       \* the NameRefIndex
    inserted,       \* number of insert_value_or_override calls made on it
    \* an iterator of util/iter.rs on its own, as in the tests of iter.rs
    iter_self,      \* the iterator
    iter_src,       \* history: what the iterator was built from
    iter_log        \* history: the calls made on it and what they returned

threadVars == <<mutex, tpc, treg, got>>
instVars == <<cells, insts, caller>>
iterVars == <<iter_self, iter_src, iter_log>>
unitVars == <<name_ref, inserted, iterVars>>
vars == <<pushed_index, arena, resolver, default_group, panicked, log, last,
          mutex, tpc, treg, got, cells, insts, caller, name_ref, inserted,
          iter_self, iter_src, iter_log>>

Threads == 1..MaxThread
Insts == 1..MaxInst

NoCall ==
    [op |-> "none", built |-> FALSE, result |-> None, berrors |-> <<>>,
     aerrors |-> <<>>, ret |-> <<TRUE, <<>> >>, key |-> None,
     overwrote |-> FALSE, calls |-> <<>>]

\* the record of a Resolver call that returned Ok(()) as <<>> or Err(e) as <<e>>
ResolverCall(op, result) ==
    [NoCall EXCEPT !.op = op, !.ret = <<result = None, result>>]

\* no iterator has been built
NoIterator == [type |-> "none"]

Init ==
    /\ pushed_index = DEFAULT_ITEM_ID
    /\ arena = EmptyMap
    /\ resolver = Resolver_default
    /\ default_group \in RootIds
    /\ panicked = FALSE
    /\ log = <<>>
    /\ last = NoCall
    /\ mutex = 0
    /\ tpc = [t \in Threads |-> "idle"]
    /\ treg = [t \in Threads |-> 0]
    /\ got = [t \in Threads |-> <<>>]
    /\ cells = EmptyMap
    /\ insts = EmptyMap
    /\ caller = 0
    /\ name_ref = NameRefIndex_new
    /\ inserted = 0
    /\ iter_self = NoIterator
    /\ iter_src = NoIterator
    /\ iter_log = <<>>

(***************************************************************************)
(* Calls on the Resolver                                                   *)
(***************************************************************************)
SetRootGroupId(group_id) ==
    LET r == set_root_group_id(resolver, group_id)
    IN /\ ~panicked
       /\ resolver' = r.resolver
       /\ last' = ResolverCall("set_root_group_id", r.result)
       /\ UNCHANGED <<pushed_index, arena, default_group, panicked, log>>
       /\ UNCHANGED <<threadVars, instVars, unitVars>>

InsertGroup(parent, child) ==
    LET r == insert_group(resolver, parent, child)
    IN /\ ~panicked
       /\ resolver' = r.resolver
       /\ last' = ResolverCall("insert_group", r.result)
       /\ UNCHANGED <<pushed_index, arena, default_group, panicked, log>>
       /\ UNCHANGED <<threadVars, instVars, unitVars>>

PushGraphItemValueOrOverride(item_kind, name, group_id, item_id) ==
    LET r == push_graph_item_value_or_override(resolver, item_kind, name,
                                               group_id, item_id)
    IN /\ ~panicked
       /\ resolver' = r.resolver
       /\ last' = ResolverCall("push_graph_item_value_or_override", r.result)
       /\ UNCHANGED <<pushed_index, arena, default_group, panicked, log>>
       /\ UNCHANGED <<threadVars, instVars, unitVars>>

(***************************************************************************)
(* Calls on the ItemArena                                                  *)
(***************************************************************************)
Push(item_builder, act) ==
    \E r \in {push(pushed_index, arena, resolver, item_builder, act)} :
       /\ ~panicked
       /\ Len(log) < MaxPush
       /\ pushed_index' = r.pushed_index
       /\ arena' = r.arena
       /\ resolver' = r.resolver
       /\ log' = IF r.built
                 THEN Append(log, [id |-> r.key[1][2], group |-> r.key[1][1],
                                   result |-> r.result[1]])
                 ELSE log
       /\ last' = [op |-> "push", built |-> r.built, result |-> r.result,
                   berrors |-> r.berrors, aerrors |-> r.aerrors,
                   ret |-> r.ret, key |-> r.key, overwrote |-> r.overwrote,
                   calls |-> r.calls,
                   registered |-> IF r.built /\ act \in RegisteringActions
                                  THEN item_builder.name
                                  ELSE None]
       /\ UNCHANGED <<default_group, panicked>>
       /\ UNCHANGED <<threadVars, instVars, unitVars>>

PushDefault(act) ==
    \E r \in {push_default(arena, resolver, act, default_group)} :
       /\ ~panicked
       /\ arena' = r.arena
       /\ resolver' = r.resolver
       /\ panicked' = r.panic
       /\ last' = [op |-> "push_default", built |-> TRUE, result |-> r.result,
                   berrors |-> <<>>, aerrors |-> r.aerrors,
                   ret |-> <<~r.panic, <<>> >>, key |-> r.key,
                   overwrote |-> r.overwrote, calls |-> r.calls]
       /\ UNCHANGED <<pushed_index, default_group, log>>
       /\ UNCHANGED <<threadVars, instVars, unitVars>>

PushUserItemAsDefault(item_builder, act) ==
    \E r \in {push_user_item_as_default(arena, resolver, item_builder, act)} :
       /\ ~panicked
       /\ arena' = r.arena
       /\ resolver' = r.resolver
       /\ last' = [op |-> "push_user_item_as_default", built |-> r.built,
                   result |-> r.result, berrors |-> r.berrors,
                   aerrors |-> r.aerrors, ret |-> r.ret, key |-> r.key,
                   overwrote |-> r.overwrote, calls |-> r.calls]
       /\ UNCHANGED <<pushed_index, default_group, panicked, log>>
       /\ UNCHANGED <<threadVars, instVars, unitVars>>

\* the groups a caller registers by name: the non-root groups of the hierarchy
GroupsToName == DOMAIN resolver.group_id_tree.parent
\* the name the callers of the model give to a group
GroupNameOf(group_id) == IF group_id = 1 THEN "a" ELSE "b"

\* building the hierarchy and naming its groups
Setup ==
    \/ \E g \in RootIds : SetRootGroupId(g)
    \/ \E p \in GroupIds, c \in GroupIds : InsertGroup(p, c)
    \/ \E c \in GroupsToName :
          PushGraphItemValueOrOverride(
              "Group", GroupNameOf(c), resolver.group_id_tree.parent[c], c)

\* the push pipeline: any builder with any commit action
Next ==
    \/ Setup
    \/ \E b \in Builders, a \in ActionKinds : Push(b, a)

Spec == Init /\ [][Next]_vars

\* the default items: unnamed builders, next to the push pipeline
DefaultBuilders == [belong_group : OptNames, name : {None}]

\* a commit action that accepts and one that refuses
DefaultActions == {"soft", "veto"}

NextDefault ==
    \/ Setup
    \/ \E b \in DefaultBuilders, a \in DefaultActions : Push(b, a)
    \/ \E a \in ActionKinds : PushDefault(a)
    \/ \E b \in DefaultBuilders, a \in DefaultActions :
          PushUserItemAsDefault(b, a)

SpecDefault == Init /\ [][NextDefault]_vars

(***************************************************************************)
(* get_push_index step by step, called by threads that own clones of one   *)
(* arena and so share its Arc<Mutex<GraphItemId>>; pushed_index is the     *)
(* value behind the mutex.                                                 *)
(***************************************************************************)
\* a mutex that lets every caller in
mutex_open(m) == TRUE

\* Mutex::lock returns once no thread holds the mutex
mutex_free(m) == m = 0

\* self.pushed_index.lock()
Lock(t) ==
    /\ tpc[t] = "idle"
    /\ Len(got[t]) < MaxAlloc
    /\ mutex_free(mutex)
    /\ mutex' = t
    /\ tpc' = [tpc EXCEPT ![t] = "locked"]
    /\ UNCHANGED <<pushed_index, treg, got>>

\* *pushed_index += 1, the load
Load(t) ==
    /\ tpc[t] = "locked"
    /\ treg' = [treg EXCEPT ![t] = pushed_index]
    /\ tpc' = [tpc EXCEPT ![t] = "loaded"]
    /\ UNCHANGED <<pushed_index, mutex, got>>

\* *pushed_index += 1, the store
Store(t) ==
    /\ tpc[t] = "loaded"
    /\ pushed_index' = treg[t] + 1
    /\ tpc' = [tpc EXCEPT ![t] = "stored"]
    /\ UNCHANGED <<mutex, treg, got>>

\* *pushed_index, the value returned
Read(t) ==
    /\ tpc[t] = "stored"
    /\ got' = [got EXCEPT ![t] = Append(@, pushed_index)]
    /\ tpc' = [tpc EXCEPT ![t] = "read"]
    /\ UNCHANGED <<pushed_index, mutex, treg>>

\* the MutexGuard is dropped at the end of the match arm
Unlock(t) ==
    /\ tpc[t] = "read"
    /\ mutex' = 0
    /\ tpc' = [tpc EXCEPT ![t] = "idle"]
    /\ UNCHANGED <<pushed_index, treg, got>>

NextThreads ==
    /\ \E t \in Threads : Lock(t) \/ Load(t) \/ Store(t) \/ Read(t) \/ Unlock(t)
    /\ UNCHANGED <<arena, resolver, default_group, panicked, log, last,
                   instVars, unitVars>>

SpecThreads == Init /\ [][NextThreads]_vars

(***************************************************************************)
(* Several ItemArena instances: ItemArena::new and the derived Clone        *)
(***************************************************************************)
FreshCell == CHOOSE c \in 1..(MaxInst + 1) : c \notin DOMAIN cells

\* ItemArena::new / ItemArena::default: a new cell holding DEFAULT_ITEM_ID
New(i) ==
    /\ i \notin DOMAIN insts
    /\ cells' = Put(cells, FreshCell, DEFAULT_ITEM_ID)
    /\ insts' = Put(insts, i, [cell |-> FreshCell, arena |-> EmptyMap])
    /\ caller' = i
    /\ last' = [NoCall EXCEPT !.op = "new"]
    /\ UNCHANGED <<pushed_index, arena, resolver, default_group, panicked,
                   log, threadVars, unitVars>>

\* #[derive(Clone)]: Arc::clone shares the cell, BTreeMap::clone copies it
Clone(src, i) ==
    /\ src \in DOMAIN insts
    /\ i \notin DOMAIN insts
    /\ insts' = Put(insts, i, [cell |-> insts[src].cell,
                               arena |-> insts[src].arena])
    /\ caller' = i
    /\ last' = [NoCall EXCEPT !.op = "clone"]
    /\ UNCHANGED <<pushed_index, arena, resolver, default_group, panicked,
                   log, threadVars, cells, unitVars>>

\* ItemArena::push on instance i
InstPush(i, item_builder, act) ==
    /\ i \in DOMAIN insts
    /\ cells[insts[i].cell] < MaxPush
    /\ \E r \in {push(cells[insts[i].cell], insts[i].arena, resolver,
                      item_builder, act)} :
          /\ cells' = [cells EXCEPT ![insts[i].cell] = r.pushed_index]
          /\ insts' = [insts EXCEPT ![i].arena = r.arena]
          /\ resolver' = r.resolver
          /\ caller' = i
          /\ last' = [op |-> "push", built |-> r.built, result |-> r.result,
                      berrors |-> r.berrors, aerrors |-> r.aerrors,
                      ret |-> r.ret, key |-> r.key, overwrote |-> r.overwrote,
                      calls |-> r.calls]
    /\ UNCHANGED <<pushed_index, arena, default_group, panicked, log,
                   threadVars, unitVars>>

NextInsts ==
    \/ \E g \in RootIds : SetRootGroupId(g)
    \/ \E i \in Insts : New(i)
    \/ \E src \in Insts, i \in Insts : Clone(src, i)
    \/ \E i \in Insts, b \in DefaultBuilders, a \in DefaultActions :
          InstPush(i, b, a)

SpecInsts == Init /\ [][NextInsts]_vars

(***************************************************************************)
(* The Resolver on its own: any group as root, groups named after they are *)
(* inserted, and nodes named in the groups of the hierarchy                *)
(***************************************************************************)
\* the groups of the hierarchy
GroupsInTree == {g \in GroupIds : IdTree_contains(resolver.group_id_tree, g)}

NextResolver ==
    \/ \E g \in GroupIds : SetRootGroupId(g)
    \/ \E p \in GroupIds, c \in GroupIds : InsertGroup(p, c)
    \/ \E c \in GroupsToName :
          PushGraphItemValueOrOverride(
              "Group", GroupNameOf(c), resolver.group_id_tree.parent[c], c)
    \/ \E n \in Names, g \in GroupsInTree :
          PushGraphItemValueOrOverride("Node", n, g, DEFAULT_ITEM_ID + 1)

SpecResolver == Init /\ [][NextResolver]_vars

(***************************************************************************)
(* Edges pushed into the arena: a hierarchy of named groups, named nodes   *)
(* and edges between what the names resolve to                             *)
(***************************************************************************)
EdgeGroupIds == 0..MaxDepth
NamedNodeBuilders == [belong_group : OptNames, name : {Some(n) : n \in Names}]
\* the edge builders pushed: unnamed edges between nodes and groups
PushedEdgeBuilders ==
    {b \in EdgeBuilders :
        /\ b.name = None
        /\ \A e \in {b.start, b.end} : e # None => e[1][1] # "Edge"}

\* group ids are handed out in increasing order: the id of the next group
\* is the number of groups the hierarchy holds
NextGroupId ==
    Cardinality({g \in EdgeGroupIds :
                    IdTree_contains(resolver.group_id_tree, g)})

NextEdge ==
    \/ \E g \in RootIds : SetRootGroupId(g)
    \/ \E p \in EdgeGroupIds, c \in EdgeGroupIds \cap {NextGroupId} :
          InsertGroup(p, c)
    \/ \E c \in GroupsToName :
          PushGraphItemValueOrOverride(
              "Group", GroupNameOf(c), resolver.group_id_tree.parent[c], c)
    \/ \E b \in NamedNodeBuilders : Push(b, "strict")
    \/ \E b \in PushedEdgeBuilders : Push(b, "strict")

SpecEdge == Init /\ [][NextEdge]_vars

(***************************************************************************)
(* Named nodes and named edges pushed into named groups with a commit      *)
(* action that registers the name and commits even when the name was bound *)
(***************************************************************************)
\* the endpoints of the named edges: none, a node or a group
NamedEndpoints ==
    {e \in OptEndpoints : e # None => e[1][1] # "Edge"}

\* the named edges pushed: edges of the root group
NamedEdgeBuilders ==
    [belong_group : {None}, name : {Some(n) : n \in Names},
     start : NamedEndpoints, end : NamedEndpoints]

NextNamed ==
    \/ Setup
    \/ \E b \in NamedNodeBuilders : Push(b, "soft")
    \/ \E b \in NamedEdgeBuilders : Push(b, "soft")

SpecNamed == Init /\ [][NextNamed]_vars

(***************************************************************************)
(* A NameRefIndex<String, GraphItemKind, ItemId> on its own                *)
(***************************************************************************)
Values == 1..MaxValue
IndexKinds == {"Node", "Edge"}

\* NameRefIndex::insert_value_or_override
InsertValueOrOverride(kind, name, value) ==
    /\ inserted < MaxInsert
    /\ \E r \in {insert_value_or_override(name_ref, kind, name, value)} :
          /\ name_ref' = r.index
          /\ last' = [op |-> "insert_value_or_override", kind |-> kind,
                      name |-> name, value |-> value, result |-> r.result]
    /\ inserted' = inserted + 1
    /\ UNCHANGED <<pushed_index, arena, resolver, default_group, panicked,
                   log, threadVars, instVars, iterVars>>

NextIndex ==
    \E kind \in IndexKinds, name \in OptNames, value \in Values :
        InsertValueOrOverride(kind, name, value)

SpecIndex == Init /\ [][NextIndex]_vars

(***************************************************************************)
(* A DoubleEndedPeekable over the iterator of a BTreeMap<ItemId, I>, and   *)
(* the calls a caller makes on it in any order                             *)
(***************************************************************************)
ItemIds == 1..MaxItem

\* a call on the iterator: r is the record [self, ret] the call computes
IterCall(type, op, r) ==
    /\ iter_src.type = type
    /\ Len(iter_log) < MaxCall
    /\ iter_self' = r.self
    /\ iter_log' = Append(iter_log, [op |-> op, ret |-> r.ret])
    /\ UNCHANGED <<iter_src, name_ref, inserted>>
    /\ UNCHANGED <<pushed_index, arena, resolver, default_group, panicked,
                   log, last, threadVars, instVars>>

\* the iterator is built from what src describes
IterFrom(self, src) ==
    /\ iter_src = NoIterator
    /\ iter_self' = self
    /\ iter_src' = src
    /\ UNCHANGED <<iter_log, name_ref, inserted>>
    /\ UNCHANGED <<pushed_index, arena, resolver, default_group, panicked,
                   log, last, threadVars, instVars>>

FromIter(keys) ==
    IterFrom(DoubleEndedPeekable_from_iter(btree_iter(keys)),
             [type |-> "peekable", items |-> btree_iter(keys)])

PeekableNext ==
    IterCall("peekable", "next", DoubleEndedPeekable_next(iter_self))

PeekableNextBack ==
    IterCall("peekable", "next_back",
             DoubleEndedPeekable_next_back(iter_self))

PeekablePeek ==
    IterCall("peekable", "peek", DoubleEndedPeekable_peek(iter_self))

PeekablePeekBack ==
    IterCall("peekable", "peek_back",
             DoubleEndedPeekable_peek_back(iter_self))

NextPeekable ==
    \/ \E keys \in SUBSET ItemIds : FromIter(keys)
    \/ PeekableNext
    \/ PeekableNextBack
    \/ PeekablePeek
    \/ PeekablePeekBack

SpecPeekable == Init /\ [][NextPeekable]_vars

\* the arguments of nth
NthArgs == 0..(MaxItem - 1)

PeekableNth(n) ==
    /\ iter_src.type = "peekable"
    /\ Len(iter_log) < MaxCall
    /\ \E r \in {DoubleEndedPeekable_nth(iter_self, n)} :
          /\ iter_self' = r.self
          /\ iter_log' = Append(iter_log, [op |-> "nth", ret |-> r.ret,
                                           n |-> n])
    /\ UNCHANGED <<iter_src, name_ref, inserted>>
    /\ UNCHANGED <<pushed_index, arena, resolver, default_group,
                   panicked, log, last, threadVars, instVars>>

\* a DoubleEndedPeekable on which nth is called between the other calls
NextNth ==
    \/ NextPeekable
    \/ \E n \in NthArgs : PeekableNth(n)

SpecNth == Init /\ [][NextNth]_vars

(***************************************************************************)
(* The iterators over the groups of a storage, and the calls of next and   *)
(* next_back a caller makes on them in any order                           *)
(***************************************************************************)
\* the storages: the groups held, each with its items; an item id is in
\* one group
Maps ==
    {map \in UNION {[groups -> SUBSET ItemIds] :
                       groups \in SUBSET GroupIds} :
        \A g, h \in DOMAIN map : g # h => map[g] \cap map[h] = {}}

\* a group id no storage holds
UnknownGroup == MaxGroup + 1

\* the group ids a caller asks for
RequestedGroups == GroupIds \cup {UnknownGroup}

AllFromBtreeMap(map) ==
    IterFrom(IterGroupByAll_from_btree_map(map),
             [type |-> "all", map |-> map, groups |-> DOMAIN map])

AllNext == IterCall("all", "next", IterGroupByAll_next(iter_self))

AllNextBack ==
    IterCall("all", "next_back", IterGroupByAll_next_back(iter_self))

NextAll ==
    \/ \E map \in Maps : AllFromBtreeMap(map)
    \/ AllNext
    \/ AllNextBack

SpecAll == Init /\ [][NextAll]_vars

ListFromBtreeMap(groups, map) ==
    IterFrom(IterGroupByList_from_btree_map(groups, map),
             [type |-> "list", map |-> map, groups |-> groups])

ListNext == IterCall("list", "next", IterGroupByList_next(iter_self))

ListNextBack ==
    IterCall("list", "next_back", IterGroupByList_next_back(iter_self))

NextList ==
    \/ \E groups \in SUBSET RequestedGroups, map \in Maps :
          ListFromBtreeMap(groups, map)
    \/ ListNext
    \/ ListNextBack

SpecList == Init /\ [][NextList]_vars

\* an iterator over all groups or over a list of groups
NextMerge ==
    \/ NextAll
    \/ NextList

SpecMerge == Init /\ [][NextMerge]_vars

ByIdFromBtreeMap(group_id, map) ==
    IterFrom(IterGroupById_from_btree_map(group_id, map),
             [type |-> "id", map |-> map, groups |-> {group_id}])

ByIdNext == IterCall("id", "next", IterGroupById_next(iter_self))

ByIdNextBack ==
    IterCall("id", "next_back", IterGroupById_next_back(iter_self))

NextById ==
    \/ \E group_id \in RequestedGroups, map \in Maps :
          ByIdFromBtreeMap(group_id, map)
    \/ ByIdNext
    \/ ByIdNextBack

SpecById == Init /\ [][NextById]_vars

ByIdNthBack(n) ==
    /\ iter_src.type = "id"
    /\ Len(iter_log) < MaxCall
    /\ \E r \in {IterGroupById_nth_back(iter_self, n)} :
          /\ iter_self' = r.self
          /\ iter_log' = Append(iter_log, [op |-> "nth_back", ret |-> r.ret,
                                           n |-> n])
    /\ UNCHANGED <<iter_src, name_ref, inserted>>
    /\ UNCHANGED <<pushed_index, arena, resolver, default_group,
                   panicked, log, last, threadVars, instVars>>

\* an IterGroupById on which nth_back is called between the other calls
NextNthBack ==
    \/ NextById
    \/ \E n \in NthArgs : ByIdNthBack(n)

SpecNthBack == Init /\ [][NextNthBack]_vars

(***************************************************************************)
(* Iterators over storages whose groups may hold the same item id, such as *)
(* the default item of each group, with the items kept as (item id,        *)
(* entity) pairs                                                           *)
(***************************************************************************)
\* the storages: a map for each of some groups, from some item ids
EntryMaps == UNION {[groups -> SUBSET ItemIds] : groups \in SUBSET GroupIds}

AllFromEntries(map) ==
    IterFrom(IterGroupByAll_from_btree_map_of_entries(map),
             [type |-> "all_entries", map |-> map, groups |-> DOMAIN map])

AllNextEntry ==
    IterCall("all_entries", "next",
             IterGroupByAll_next_of_entries(iter_self))

AllNextBackEntry ==
    IterCall("all_entries", "next_back",
             IterGroupByAll_next_back_of_entries(iter_self))

ListFromEntries(groups, map) ==
    IterFrom(IterGroupByList_from_btree_map_of_entries(groups, map),
             [type |-> "list_entries", map |-> map, groups |-> groups])

ListNextEntry ==
    IterCall("list_entries", "next",
             IterGroupByList_next_of_entries(iter_self))

ListNextBackEntry ==
    IterCall("list_entries", "next_back",
             IterGroupByList_next_back_of_entries(iter_self))

NextEntries ==
    \/ \E map \in EntryMaps : AllFromEntries(map)
    \/ AllNextEntry
    \/ AllNextBackEntry
    \/ \E groups \in SUBSET RequestedGroups, map \in EntryMaps :
          ListFromEntries(groups, map)
    \/ ListNextEntry
    \/ ListNextBackEntry

SpecEntries == Init /\ [][NextEntries]_vars

TypeOK ==
    /\ pushed_index \in Nat
    /\ panicked \in BOOLEAN
    /\ default_group \in GroupIds

(***************************************************************************)
(* Properties of ItemArena::push                                           *)
(***************************************************************************)
\* positions of a call in the program-order list of a call's steps
Positions(calls, what) == {i \in 1..Len(calls) : calls[i] = what}
\* the commit actions of log that reported success
Committed == {i \in 1..Len(log) : log[i].result}

\* C1: the item ids handed to the commit actions strictly increase in call
\* order whatever the groups are, every insert of push goes to a key that
\* holds no entity yet, and every stored entity was committed by exactly one
\* push.
C1_IdsIncreaseKeysUnique ==
    /\ \A i, j \in 1..Len(log) : i < j => log[i].id < log[j].id
    /\ last.op = "push" => ~last.overwrote
    /\ \A k \in DOMAIN arena :
          Cardinality({i \in Committed :
                          <<log[i].group, log[i].id>> = k}) = 1

C1_Witness ==
    /\ Len(log) = 2
    /\ log[1].group # log[2].group
    /\ Cardinality(DOMAIN arena) = 2

\* C2: push stores the entity under (group id, allocated id) iff the commit
\* action returned success, whatever the error list is; count() is the number
\* of push calls that returned true; push returns the action's boolean with
\* the builder errors followed by the action errors.
C2_StoredIffSuccess ==
    /\ (last.op = "push" /\ last.built) =>
          /\ (last.key[1] \in DOMAIN arena) <=> last.result[1]
          /\ last.ret = <<last.result[1], last.berrors \o last.aerrors>>
    /\ count(arena) = Cardinality(Committed)

\* a push that committed although its error list is not empty
C2_Witness ==
    /\ last.op = "push"
    /\ last.ret[1]
    /\ last.ret[2] # <<>>
    /\ last.key[1] \in DOMAIN arena
    /\ count(arena) = 2

\* a push that did not commit although its error list is empty
C2_WitnessRefused ==
    /\ last.op = "push"
    /\ last.built
    /\ ~last.ret[1]
    /\ last.ret[2] = <<>>

\* C3: an id whose commit action reported failure is consumed: every later
\* push gets a strictly greater id, the counter never falls back to it, and
\* no entity is stored under it in any group.
C3_FailedIdConsumed ==
    \A i \in 1..Len(log) :
        ~log[i].result =>
            /\ \A j \in 1..Len(log) : i < j => log[j].id > log[i].id
            /\ pushed_index >= log[i].id
            /\ \A g \in GroupIds : <<g, log[i].id>> \notin DOMAIN arena

\* a push committed after an earlier push's commit action failed
C3_Witness ==
    /\ Len(log) = 2
    /\ ~log[1].result
    /\ log[2].result
    /\ <<log[2].group, log[2].id>> \in DOMAIN arena

\* C4 as claimed: every push call invokes the commit action exactly once,
\* after the builder and before the insert.
C4_ActionOncePerPush ==
    last.op = "push" =>
        /\ Cardinality(Positions(last.calls, "action")) = 1
        /\ \A i \in Positions(last.calls, "build"),
              j \in Positions(last.calls, "action") : i < j
        /\ \A i \in Positions(last.calls, "action"),
              j \in Positions(last.calls, "insert") : i < j

\* C4 amended: a push whose builder yields an entity invokes the commit
\* action exactly once, after the builder and before the insert; a push whose
\* builder yields no entity does not invoke it.
C4_ActionOncePerBuiltPush ==
    last.op = "push" =>
        IF last.built
        THEN /\ Cardinality(Positions(last.calls, "action")) = 1
             /\ Len(last.aerrors) <= 1
             /\ \A i \in Positions(last.calls, "build"),
                   j \in Positions(last.calls, "action") : i < j
             /\ \A i \in Positions(last.calls, "action"),
                   j \in Positions(last.calls, "insert") : i < j
        ELSE /\ Positions(last.calls, "action") = {}
             /\ Positions(last.calls, "insert") = {}

\* a push that went through builder, commit action and insert
C4_Witness ==
    /\ last.op = "push"
    /\ last.built
    /\ Positions(last.calls, "insert") # {}

\* C5: a push whose builder yields no entity returns (false, builder errors)
\* and leaves the arena storage and the Resolver as they were.
C5_UnbuiltPushChangesNothing ==
    [][(last'.op = "push" /\ ~last'.built) =>
          /\ last'.ret = <<FALSE, last'.berrors>>
          /\ last'.berrors # <<>>
          /\ arena' = arena
          /\ resolver' = resolver]_vars

\* a push refused by the builder on an arena that already stores an entity
C5_Witness ==
    /\ last.op = "push"
    /\ ~last.built
    /\ arena # EmptyMap
    /\ resolver.graph_items.reference_index # EmptyMap

(***************************************************************************)
(* Properties of the default items                                         *)
(***************************************************************************)
\* C6: a push_default that returns has installed the default entity under
\* item id 0 of its group, where get and get_default find it; push never
\* hands out item id 0.
C6_DefaultAtZero ==
    /\ (last.op = "push_default" /\ ~panicked) =>
          /\ last.key = Some(<<default_group, DEFAULT_ITEM_ID>>)
          /\ get(arena, default_group, DEFAULT_ITEM_ID)
                = Some(DefaultItem(default_group))
          /\ get_default(arena, default_group)
                = Some(DefaultItem(default_group))
    /\ \A i \in 1..Len(log) : log[i].id # DEFAULT_ITEM_ID
    /\ (last.op = "push" /\ last.built) => last.key[1][2] # DEFAULT_ITEM_ID

\* push_default returned on an arena push has already committed into
C6_Witness ==
    /\ last.op = "push_default"
    /\ ~panicked
    /\ Committed # {}
    /\ count(arena) >= 2

\* C7: once (group, 0) holds an entity, no call inserts at (group, 0) again.
C7_DefaultInstalledOnce ==
    (last.overwrote /\ last.key # None) => last.key[1][2] # DEFAULT_ITEM_ID

(***************************************************************************)
(* Properties of ItemArena::range                                          *)
(***************************************************************************)
\* the ids a range with the given bounds contains
IdInBounds(id, start_bound, end_bound) ==
    /\ CASE start_bound[1] = "Included" -> id >= start_bound[2]
         [] start_bound[1] = "Excluded" -> id > start_bound[2]
         [] OTHER -> TRUE
    /\ CASE end_bound[1] = "Included" -> id <= end_bound[2]
         [] end_bound[1] = "Excluded" -> id < end_bound[2]
         [] OTHER -> TRUE

\* the ranges of ids whose start does not lie beyond their end
WellFormed(start_bound, end_bound) ==
    (start_bound[1] # "Unbounded" /\ end_bound[1] # "Unbounded") =>
        /\ start_bound[2] <= end_bound[2]
        /\ ~(start_bound[2] = end_bound[2] /\ start_bound[1] = "Excluded"
             /\ end_bound[1] = "Excluded")

\* C10: range(group_id, r) yields, in ascending item-id order, exactly the
\* stored entities of group_id whose item id lies in r, for every kind of
\* bound, and never an entity of another group.
C10_RangeWithinGroup ==
    \A g \in GroupIds, sb \in ItemBounds, eb \in ItemBounds :
        WellFormed(sb, eb) =>
            range(arena, g, sb, eb) =
                [panic |-> FALSE,
                 keys |-> KeysAscending(
                     {k \in DOMAIN arena :
                         k[1] = g /\ IdInBounds(k[2], sb, eb)})]

(***************************************************************************)
(* Properties of the identity counter                                      *)
(***************************************************************************)
\* the allocations made so far: (thread, position in the thread's calls)
Allocations == {<<t, i>> \in Threads \X (1..MaxAlloc) : i <= Len(got[t])}

\* C8: concurrent callers of get_push_index on one counter never get the
\* same id twice, each caller's ids increase, and the counter is the number
\* of increments made.
C8_NoDuplicateIds ==
    /\ \A x, y \in Allocations : x # y => got[x[1]][x[2]] # got[y[1]][y[2]]
    /\ \A t \in Threads : \A i, j \in 1..Len(got[t]) :
          i < j => got[t][i] < got[t][j]
    /\ \A x \in Allocations : got[x[1]][x[2]] <= pushed_index

\* two threads whose allocations interleave
C8_Witness ==
    \E t, u \in Threads :
        /\ t # u
        /\ Len(got[t]) = 2
        /\ Len(got[u]) >= 1
        /\ got[t][1] < got[u][1]
        /\ got[u][1] < got[t][2]

\* the id instance i would hand to its next commit action
NextId(i) == get_push_index(cells[insts[i].cell]).id

\* C9: a push on one instance leaves the ids that every other instance,
\* fresh or cloned, issues later as they were.
C9_InstancesIndependent ==
    [][last'.op = "push" =>
          \A j \in DOMAIN insts : j # caller' => NextId(j)' = NextId(j)]_vars

(***************************************************************************)
(* Properties of name resolution                                           *)
(***************************************************************************)
\* Result<(GroupId, ItemId), NameIdError>: NotExist(kind, name)
NotExist(kind, name) ==
    [ok |-> FALSE, value |-> <<0, 0>>, err |-> <<"NotExist", kind, name>>]

\* the last call was a push whose commit action registered a name and
\* reported success
PushRegistered(call) ==
    /\ call.op = "push"
    /\ call.registered # None
    /\ call.result = Some(TRUE)

\* C11 as claimed: after a push whose commit action registered the entity's
\* name and reported success, the name resolves under the entity's kind to
\* the key the entity is stored under, and under every other kind to
\* NotExist(kind, name).
C11_NameResolvesOtherKindsNotExist ==
    PushRegistered(last) =>
        /\ get_graph_item_id_pair(resolver, "Node", last.registered[1])
              = [ok |-> TRUE, value |-> last.key[1], err |-> <<>>]
        /\ last.key[1] \in DOMAIN arena
        /\ \A k \in GraphItemKinds \ {"Node"} :
              get_graph_item_id_pair(resolver, k, last.registered[1])
                  = NotExist(k, last.registered[1])

\* C11 amended: after such a push the name resolves under the entity's kind
\* to the key the entity is stored under, and under every other kind to what
\* it resolved to before the push: NotExist(kind, name) unless the name is
\* bound under that kind.
C11_NameResolvesToStoredKey ==
    [][PushRegistered(last') =>
          /\ get_graph_item_id_pair(resolver', "Node", last'.registered[1])
                = [ok |-> TRUE, value |-> last'.key[1], err |-> <<>>]
          /\ last'.key[1] \in DOMAIN arena'
          /\ arena'[last'.key[1]].kind = "Node"
          /\ \A k \in GraphItemKinds \ {"Node"} :
                /\ get_graph_item_id_pair(resolver', k, last'.registered[1])
                      = get_graph_item_id_pair(resolver, k,
                                               last'.registered[1])
                /\ ~is_usable_graph_item_name(resolver, k,
                                              last'.registered[1])
                      => get_graph_item_id_pair(resolver', k,
                                                last'.registered[1])
                            = NotExist(k, last'.registered[1])]_vars

\* a push registered a name that a group already bears
C11_Witness ==
    /\ PushRegistered(last)
    /\ is_usable_graph_item_name(resolver, "Group", last.registered[1])
    /\ ~is_usable_graph_item_name(resolver, "Edge", last.registered[1])

(***************************************************************************)
(* Properties of NameRefIndex                                              *)
(***************************************************************************)
\* the call record is one of insert_value_or_override with a present name
NamedInsert(call) ==
    call.op = "insert_value_or_override" /\ call.name # None

\* the call record is one of insert_value_or_override with an absent name
UnnamedInsert(call) ==
    call.op = "insert_value_or_override" /\ call.name = None

\* Err(NameIdError::Override(kind, name))
Override(kind, name) == Some(<<"Override", kind, name>>)

\* C12: an insertion of name N with value V under a kind leaves
\* get_value(kind, N) == V; the first insertion of N reports success and an
\* insertion that replaces a different value reports Override(kind, N).
C12_LastWriteWins ==
    [][NamedInsert(last') =>
          /\ get_value(name_ref', last'.kind, last'.name[1])
                = Some(last'.value)
          /\ get_value(name_ref, last'.kind, last'.name[1]) = None
                => last'.result = None
          /\ get_value(name_ref, last'.kind, last'.name[1])
                \notin {None, Some(last'.value)}
                => last'.result = Override(last'.kind, last'.name[1])]_vars

\* N was bound to V1, and the last insertion bound it to another value
C12_Witness ==
    /\ NamedInsert(last)
    /\ last.result = Override(last.kind, last.name[1])
    /\ get_value(name_ref, last.kind, last.name[1]) = Some(last.value)
    /\ \E v \in Values \ {last.value} :
          get_name(name_ref, last.kind, v) = last.name

\* what the index answers about one kind
KindView(index, kind) ==
    [values |-> [n \in Names |-> get_value(index, kind, n)],
     usable |-> [n \in Names |-> is_usable_name(index, kind, n)],
     names |-> [v \in Values |-> get_name(index, kind, v)],
     registered |-> [v \in Values |-> is_already_registered(index, kind, v)],
     named |-> [v \in Values |-> has_registered_name(index, kind, v)],
     count_usable |-> count_usable_names_by(index, kind),
     count_registered |-> count_registered_names_by(index, kind)]

\* C13: an insertion of a name under kind K reports Override only if the
\* name was bound under K, whatever other kinds bind it to; it binds the
\* name under K to its value and leaves every answer about the other kinds
\* as it was.
C13_NamesScopedByKind ==
    [][NamedInsert(last') =>
          /\ ~is_usable_name(name_ref, last'.kind, last'.name[1])
                => last'.result = None
          /\ get_value(name_ref', last'.kind, last'.name[1])
                = Some(last'.value)
          /\ \A k \in IndexKinds \ {last'.kind} :
                KindView(name_ref', k) = KindView(name_ref, k)]_vars

\* a name bound under two kinds to two values, the second without Override
C13_Witness ==
    /\ NamedInsert(last)
    /\ last.result = None
    /\ \E k \in IndexKinds \ {last.kind} :
          /\ is_usable_name(name_ref, k, last.name[1])
          /\ get_value(name_ref, k, last.name[1]) # Some(last.value)

\* C14: insert_value_or_override with a present name signals
\* Override(kind, name) exactly when a different value was bound to
\* (kind, name) before; a first binding and a re-insertion of the bound value
\* return success.
C14_OverrideIffDifferentValue ==
    [][NamedInsert(last') =>
          IF get_value(name_ref, last'.kind, last'.name[1])
                \notin {None, Some(last'.value)}
          THEN last'.result = Override(last'.kind, last'.name[1])
          ELSE last'.result = None]_vars

\* C15: the forward and the reverse map agree: get_value(kind, n) == v
\* exactly when get_name(kind, v) == n.
C15_ForwardReverseConsistent ==
    \A k \in IndexKinds, n \in Names, v \in Values :
        get_value(name_ref, k, n) = Some(v)
            <=> get_name(name_ref, k, v) = Some(n)

\* C16: an insertion with an absent name succeeds and only adds
\* (kind, value) to the unnamed set: the value is registered afterwards, and
\* its name, the forward map, the reverse map and all counts are as before.
C16_UnnamedInsertOnlyAddsToSet ==
    [][UnnamedInsert(last') =>
          /\ last'.result = None
          /\ is_already_registered(name_ref', last'.kind, last'.value)
          /\ name_ref'.no_name_reference
                = name_ref.no_name_reference
                      \cup {<<last'.kind, last'.value>>}
          /\ get_name(name_ref', last'.kind, last'.value)
                = get_name(name_ref, last'.kind, last'.value)
          /\ has_registered_name(name_ref', last'.kind, last'.value)
                = has_registered_name(name_ref, last'.kind, last'.value)
          /\ name_ref'.reference_index = name_ref.reference_index
          /\ name_ref'.rev_reference_index = name_ref.rev_reference_index
          /\ count_usable_names_all(name_ref')
                = count_usable_names_all(name_ref)
          /\ count_registered_names_all(name_ref')
                = count_registered_names_all(name_ref)
          /\ \A k \in IndexKinds :
                /\ count_usable_names_by(name_ref', k)
                      = count_usable_names_by(name_ref, k)
                /\ count_registered_names_by(name_ref', k)
                      = count_registered_names_by(name_ref, k)]_vars

\* a value without a name was inserted into an index that binds names
C16_Witness ==
    /\ UnnamedInsert(last)
    /\ ~has_registered_name(name_ref, last.kind, last.value)
    /\ is_already_registered(name_ref, last.kind, last.value)
    /\ count_usable_names_all(name_ref) >= 2

(***************************************************************************)
(* Properties of the Resolver                                              *)
(***************************************************************************)
\* C17: set_root_group_id succeeds when the hierarchy has no root and makes
\* its argument the root; every later call fails with an error and leaves
\* the root, the hierarchy and the rest of the Resolver as they were.
C17_RootSetOnce ==
    [][last'.op = "set_root_group_id" =>
          IF resolver.group_id_tree.root = None
          THEN /\ last'.ret = <<TRUE, None>>
               /\ \E g \in GroupIds :
                     resolver' = [resolver EXCEPT
                                     !.group_id_tree = IdTree_new(g)]
               /\ get_root_group_id(resolver').ok
          ELSE /\ last'.ret = <<FALSE, Some(<<"FailSetRootGraphId">>)>>
               /\ resolver' = resolver]_vars

\* a second set_root_group_id was refused on a hierarchy with a child group
C17_Witness ==
    /\ last.op = "set_root_group_id"
    /\ ~last.ret[1]
    /\ resolver.group_id_tree.parent # EmptyMap
    /\ resolver.graph_items.reference_index # EmptyMap

\* the groups the callers registered under the name: groups that lie in
\* another group and bear the name in the Resolver
GroupsNamed(name) ==
    {c \in DOMAIN resolver.group_id_tree.parent :
        /\ GroupNameOf(c) = name
        /\ has_registered_name(resolver.graph_items, "Group",
                               <<resolver.group_id_tree.parent[c], c>>)}

\* C18: get_belong_group(None) returns the root group id, and fails with
\* NotInitialized when no root is set; get_belong_group(Some(name)) returns
\* the own id of the group registered under the name in the Group namespace,
\* and fails with NotExist(Group, name) when no group bears the name, even if
\* a node does.
C18_BelongGroupResolution ==
    /\ IF resolver.group_id_tree.root = None
       THEN /\ ~get_belong_group(resolver, None).ok
            /\ get_belong_group(resolver, None).err = <<"NotInitialized">>
       ELSE /\ get_belong_group(resolver, None).ok
            /\ get_belong_group(resolver, None).value
                  = resolver.group_id_tree.root[1]
    /\ \A n \in Names :
          IF is_usable_name(resolver.graph_items, "Group", n)
          THEN /\ get_belong_group(resolver, Some(n)).ok
               /\ get_belong_group(resolver, Some(n)).value \in GroupsNamed(n)
          ELSE /\ ~get_belong_group(resolver, Some(n)).ok
               /\ get_belong_group(resolver, Some(n)).err
                     = <<"NotExist", "Group", n>>

\* one name is borne by a group that lies in another group, the other name
\* by a node only
C18_Witness ==
    \E n \in Names, m \in Names :
        /\ is_usable_name(resolver.graph_items, "Group", n)
        /\ GroupsNamed(n) # {}
        /\ ~is_usable_name(resolver.graph_items, "Group", m)
        /\ is_usable_name(resolver.graph_items, "Node", m)

(***************************************************************************)
(* Properties of the edge builder                                          *)
(***************************************************************************)
\* the groups above a group in the hierarchy of the Resolver
AncestorsOf(group_id) ==
    {a \in EdgeGroupIds :
        /\ get_ancestor_ids(resolver, group_id) # None
        /\ \E i \in DOMAIN get_ancestor_ids(resolver, group_id)[1] :
              get_ancestor_ids(resolver, group_id)[1][i] = a}

\* the errors of a sequence, as a set
ErrorsIn(errors) == {errors[i] : i \in DOMAIN errors}

\* the belonging group the Resolver gives the builder
BelongGroupOf(b) == get_belong_group(resolver, b.belong_group)

\* what pushing the builder into the arena does and returns
PushOf(b) == push(pushed_index, arena, resolver, b, "strict")

\* the endpoint is of kind Group and names, in the Resolver, the group or a
\* group above it
NamesOwnGroup(group_id, endpoint) ==
    /\ endpoint # None
    /\ endpoint[1][1] = "Group"
    /\ get_graph_item_id_pair(resolver, "Group", endpoint[1][2]).ok
    /\ get_graph_item_id_pair(resolver, "Group", endpoint[1][2]).value[2]
          \in {group_id} \cup AncestorsOf(group_id)

\* no edge of the arena has its own group, or a group above it, as an
\* endpoint of kind Group
NoEdgeToOwnGroup ==
    \A k \in DOMAIN arena :
        arena[k].kind = "Edge" =>
            \A e \in {arena[k].start, arena[k].end} :
                e[1] = "Group" =>
                    e[3] \notin {arena[k].belong_group_id}
                                \cup AncestorsOf(arena[k].belong_group_id)

\* C19: an edge builder whose belonging group is G and whose start or end
\* endpoint is of kind Group and names G or a group above G reports
\* CannotSpecifyBelongGroupAsEndpoint and yields no entity; its push stores
\* nothing, and no edge of the arena has such an endpoint.
C19_NoEdgeToBelongGroup ==
    /\ \A b \in PushedEdgeBuilders : \A g \in {BelongGroupOf(b)} :
          (/\ g.ok
           /\ \E e \in {b.start, b.end} : NamesOwnGroup(g.value, e))
             => \A r \in {PushOf(b)} :
                   /\ EdgeItemBuilder_build(b, resolver).item = None
                   /\ ~r.built
                   /\ r.ret[1] = FALSE
                   /\ \A e \in {b.start, b.end} :
                         NamesOwnGroup(g.value, e) =>
                             <<"CannotSpecifyBelongGroupAsEndpoint",
                               e[1][2]>> \in ErrorsIn(r.ret[2])
                   /\ r.arena = arena
    /\ NoEdgeToOwnGroup

\* the push of an edge of a named group that names a group above its own as
\* an endpoint was refused
C19_Witness ==
    /\ last.op = "push"
    /\ ~last.built
    /\ arena # EmptyMap
    /\ \E b \in PushedEdgeBuilders :
          /\ b.belong_group # None
          /\ BelongGroupOf(b).ok
          /\ \E e \in {b.start, b.end} :
                /\ NamesOwnGroup(BelongGroupOf(b).value, e)
                /\ e[1][2] # b.belong_group[1]
                /\ <<"CannotSpecifyBelongGroupAsEndpoint", e[1][2]>>
                      \in ErrorsIn(last.ret[2])
          /\ PushOf(b).ret = last.ret

\* the endpoint is specified, its name resolves under its kind, and it does
\* not name the edge's own group or a group above it
EndpointResolves(group_id, endpoint) ==
    /\ endpoint # None
    /\ get_graph_item_id_pair(resolver, endpoint[1][1], endpoint[1][2]).ok
    /\ ~NamesOwnGroup(group_id, endpoint)

\* the belonging group of what the endpoint names
EndpointGroup(endpoint) ==
    get_graph_item_id_pair(resolver, endpoint[1][1], endpoint[1][2]).value[1]

\* the group is the other group or lies above it
Contains(group_id, other) ==
    group_id = other \/ group_id \in AncestorsOf(other)

\* every edge of the arena lies in a group that contains the groups of its
\* two endpoints
EdgesContainEndpoints ==
    \A k \in DOMAIN arena :
        arena[k].kind = "Edge" =>
            /\ Contains(arena[k].belong_group_id, arena[k].start[2])
            /\ Contains(arena[k].belong_group_id, arena[k].end[2])

\* C20: when the belonging group and both endpoints of an edge builder
\* resolve, the builder yields an edge exactly when the belonging group is,
\* or lies above, the group of the start endpoint and that of the end
\* endpoint, and reports InappropriateGroup otherwise; every edge of the
\* arena satisfies the containment.
C20_EdgeGroupContainsEndpoints ==
    /\ \A b \in PushedEdgeBuilders : \A g \in {BelongGroupOf(b)} :
          (/\ g.ok
           /\ EndpointResolves(g.value, b.start)
           /\ EndpointResolves(g.value, b.end))
             => \A r \in {PushOf(b)} :
                   /\ r.built <=>
                         /\ Contains(g.value, EndpointGroup(b.start))
                         /\ Contains(g.value, EndpointGroup(b.end))
                   /\ r.built <=>
                         EdgeItemBuilder_build(b, resolver).item # None
                   /\ r.built =>
                         /\ r.key[1][1] = g.value
                         /\ EdgeItemBuilder_build(b, resolver).item[1].kind
                               = "Edge"
                   /\ ~r.built =>
                         /\ <<"InappropriateGroup">> \in ErrorsIn(r.ret[2])
                         /\ r.arena = arena
    /\ EdgesContainEndpoints

\* an edge was stored in a group that lies above the group of an endpoint
C20_Witness ==
    /\ last.op = "push"
    /\ last.built
    /\ last.key[1] \in DOMAIN arena
    /\ arena[last.key[1]].kind = "Edge"
    /\ arena[last.key[1]].start[2] # arena[last.key[1]].belong_group_id
    /\ arena[last.key[1]].start[1] = "Node"

\* an edge builder whose group does not contain an endpoint was refused
C20_WitnessRefused ==
    /\ last.op = "push"
    /\ ~last.built
    /\ <<"InappropriateGroup">> \in ErrorsIn(last.ret[2])


\* the errors a builder reports about an endpoint
EndpointErrors ==
    {<<"NotSpecifyStartEndpoint">>, <<"NotSpecifyEndEndpoint">>,
     <<"FailResolveStartEndpoint">>, <<"FailResolveEndEndpoint">>}
    \cup {<<"CannotSpecifyBelongGroupAsEndpoint", n>> : n \in Names}

\* the error the name of an edge builder adds: the name is bound under Edge
EdgeNameErrors(b) ==
    IF b.name # None /\ is_usable_graph_item_name(resolver, "Edge", b.name[1])
    THEN << <<"AlreadyExist", "Edge", b.name[1]>> >>
    ELSE <<>>

\* C21: when the Resolver cannot give the belonging group of an edge
\* builder, the build yields no entity and reports the Resolver's error and
\* FailResolveBelongGroup, followed only by the error of the name check: no
\* endpoint error is reported, whatever the endpoints are, and the push
\* stores nothing.
C21_UnresolvedGroupSkipsEndpoints ==
    \A b \in EdgeBuilders : \A g \in {BelongGroupOf(b)} :
        ~g.ok =>
            /\ \A r \in {EdgeItemBuilder_build(b, resolver)} :
                  /\ r.item = None
                  /\ r.errors = <<g.err, <<"FailResolveBelongGroup">> >>
                                \o EdgeNameErrors(b)
                  /\ ErrorsIn(r.errors) \cap EndpointErrors = {}
            /\ \A r \in {PushOf(b)} :
                  /\ ~r.built
                  /\ r.arena = arena
                  /\ ErrorsIn(r.ret[2]) \cap EndpointErrors = {}

\* the push of an edge builder without endpoints whose belonging group is
\* a name the Resolver does not know was refused, groups being registered
C21_Witness ==
    /\ last.op = "push"
    /\ ~last.built
    /\ IdTree_is_some(resolver.group_id_tree)
    /\ <<"FailResolveBelongGroup">> \in ErrorsIn(last.ret[2])
    /\ \E b \in PushedEdgeBuilders :
          /\ b.start = None
          /\ b.end = None
          /\ b.belong_group # None
          /\ ~BelongGroupOf(b).ok
          /\ PushOf(b).ret = last.ret
          /\ Len(last.ret[2]) = 2


\* the endpoint fails: it is unspecified, its name does not resolve under
\* its kind, or it names the edge's own group or a group above it
EndpointFails(group_id, endpoint) == ~EndpointResolves(group_id, endpoint)

\* the error resolve_endpoint reports for a failing endpoint
EndpointFailure(group_id, endpoint, not_specify_error) ==
    IF endpoint = None
    THEN not_specify_error
    ELSE IF ~get_graph_item_id_pair(resolver, endpoint[1][1],
                                    endpoint[1][2]).ok
    THEN <<"NotExist", endpoint[1][1], endpoint[1][2]>>
    ELSE <<"CannotSpecifyBelongGroupAsEndpoint", endpoint[1][2]>>

\* C22: when the belonging group of an edge builder resolves and both
\* endpoints fail, the build yields no entity and its errors hold the
\* failure of the start endpoint with FailResolveStartEndpoint and the
\* failure of the end endpoint with FailResolveEndEndpoint; when exactly
\* one endpoint fails, the build yields no entity and its errors are that
\* endpoint's two failures, followed only by the error of the name check.
C22_BuilderErrorsAccumulate ==
    \A b \in EdgeBuilders : \A g \in {BelongGroupOf(b)} :
        g.ok =>
            \A r \in {EdgeItemBuilder_build(b, resolver)} :
              \A fs \in {EndpointFails(g.value, b.start)} :
                \A fe \in {EndpointFails(g.value, b.end)} :
                  /\ (fs \/ fe) => r.item = None /\ ~PushOf(b).built
                  /\ (fs /\ fe) =>
                        r.errors =
                          <<EndpointFailure(g.value, b.start,
                                            <<"NotSpecifyStartEndpoint">>),
                            EndpointFailure(g.value, b.end,
                                            <<"NotSpecifyEndEndpoint">>),
                            <<"FailResolveStartEndpoint">>,
                            <<"FailResolveEndEndpoint">> >>
                          \o EdgeNameErrors(b)
                  /\ (fs /\ ~fe) =>
                        r.errors =
                          <<EndpointFailure(g.value, b.start,
                                            <<"NotSpecifyStartEndpoint">>),
                            <<"FailResolveStartEndpoint">> >>
                          \o EdgeNameErrors(b)
                  /\ (~fs /\ fe) =>
                        r.errors =
                          <<EndpointFailure(g.value, b.end,
                                            <<"NotSpecifyEndEndpoint">>),
                            <<"FailResolveEndEndpoint">> >>
                          \o EdgeNameErrors(b)

\* a push was refused with the failures of both endpoints, the start being
\* unspecified and the end naming the edge's own group
C22_Witness ==
    /\ last.op = "push"
    /\ ~last.built
    /\ last.ret[2] = << <<"NotSpecifyStartEndpoint">>,
                        <<"CannotSpecifyBelongGroupAsEndpoint", "a">>,
                        <<"FailResolveStartEndpoint">>,
                        <<"FailResolveEndEndpoint">> >>

\* a push was refused with the failures of the end endpoint alone, the
\* start endpoint being a node of the arena
C22_WitnessOne ==
    /\ last.op = "push"
    /\ ~last.built
    /\ arena # EmptyMap
    /\ last.ret[2] = << <<"NotExist", "Node", "b">>,
                        <<"FailResolveEndEndpoint">> >>
    /\ get_graph_item_id_pair(resolver, "Node", "a").ok


(***************************************************************************)
(* Properties of the name check of the builders                            *)
(***************************************************************************)
\* the kind of the entity a builder builds
KindOf(b) == IF "start" \in DOMAIN b THEN "Edge" ELSE "Node"

\* the name is bound under the kind: the Resolver resolves it
Bound(kind, name) == get_graph_item_id_pair(resolver, kind, name).ok

\* the positions of an error in a sequence of errors
ErrorPositions(errors, e) == {i \in DOMAIN errors : errors[i] = e}

\* C23: for every Node and Edge builder, built or not, the errors of the
\* build hold AlreadyExist(kind, name) exactly when the builder has that
\* name and the name is bound under the builder's kind; the error then
\* comes once, at the end, and never with another kind.
C23_NameCheckIndependent ==
    \A b \in Builders \cup EdgeBuilders :
        \A r \in {item_builder_build(b, resolver)} :
            \A k \in GraphItemKinds, n \in Names :
                /\ <<"AlreadyExist", k, n>> \in ErrorsIn(r.errors)
                      <=> /\ k = KindOf(b)
                          /\ b.name = Some(n)
                          /\ Bound(k, n)
                /\ <<"AlreadyExist", k, n>> \in ErrorsIn(r.errors)
                      => ErrorPositions(r.errors, <<"AlreadyExist", k, n>>)
                             = {Len(r.errors)}

\* the push of an edge builder that yields no entity reported that its name
\* is already bound to an edge
C23_Witness ==
    /\ last.op = "push"
    /\ ~last.built
    /\ \E n \in Names :
          /\ <<"AlreadyExist", "Edge", n>> \in ErrorsIn(last.ret[2])
          /\ <<"FailResolveStartEndpoint">> \in ErrorsIn(last.ret[2])
          /\ ~Bound("Node", n)

\* the push of an edge builder named as a node is, and as no edge is, built
\* an edge and reported no AlreadyExist
C23_WitnessOtherKind ==
    /\ last.op = "push"
    /\ last.built
    /\ last.registered # None
    /\ arena[last.key[1]].kind = "Edge"
    /\ \E k \in DOMAIN arena :
          /\ arena[k].kind = "Node"
          /\ get_graph_item_id_pair(resolver, "Node", last.registered[1])
                = [ok |-> TRUE, value |-> k, err |-> <<>>]
    /\ last.ret[2] = <<>>


(***************************************************************************)
(* Properties of the push of a name that is already bound                  *)
(***************************************************************************)
\* the step is a push that built an entity named n of the kind, with a
\* commit action that registered the name and reported success, while the
\* name was bound under the kind
PushOfBoundName(kind, n) ==
    /\ PushRegistered(last')
    /\ last'.registered = Some(n)
    /\ last'.key[1] \in DOMAIN arena'
    /\ arena'[last'.key[1]].kind = kind
    /\ Bound(kind, n)

\* C24: a push that builds an entity whose name is bound under its kind,
\* with a commit action that registers the name and reports success,
\* stores the entity under a new key, so that count grows by one, returns
\* success with Override(kind, name) among the errors, makes the name
\* resolve to the new key, and leaves the entities stored before as they
\* were, the one the name resolved to among them.
C24_OverridePushStores ==
    [][\A kind \in IndexKinds, n \in Names :
          PushOfBoundName(kind, n) =>
              /\ last'.key[1] \notin DOMAIN arena
              /\ count(arena') = count(arena) + 1
              /\ last'.ret[1] = TRUE
              /\ <<"Override", kind, n>> \in ErrorsIn(last'.ret[2])
              /\ get_graph_item_id_pair(resolver', kind, n)
                    = [ok |-> TRUE, value |-> last'.key[1], err |-> <<>>]
              /\ get_graph_item_id_pair(resolver, kind, n).value
                    # last'.key[1]
              /\ \A k \in DOMAIN arena :
                    k \in DOMAIN arena' /\ arena'[k] = arena[k]]_vars

\* a second node of a name was stored beside the first, and the name
\* resolves to the second
C24_Witness ==
    /\ PushRegistered(last)
    /\ <<"Override", "Node", last.registered[1]>> \in ErrorsIn(last.ret[2])
    /\ count(arena) = 2
    /\ \A k \in DOMAIN arena : arena[k].kind = "Node"
    /\ get_graph_item_id_pair(resolver, "Node", last.registered[1]).value
          = last.key[1]

\* a second edge of a name was stored beside the first
C24_WitnessEdge ==
    /\ PushRegistered(last)
    /\ <<"Override", "Edge", last.registered[1]>> \in ErrorsIn(last.ret[2])
    /\ count(arena) = 2


(***************************************************************************)
(* Properties of DoubleEndedPeekable                                       *)
(***************************************************************************)
\* the calls that yield an element
YieldingOps == {"next", "next_back"}

\* the items the calls of a log have yielded
Yielded(calls) ==
    {calls[i].ret[1] : i \in {j \in DOMAIN calls :
                                 /\ calls[j].op \in YieldingOps
                                 /\ calls[j].ret # None}}

\* the elements of a sequence of distinct items that are not in a set, in
\* the order of the sequence
RECURSIVE Without(_, _)
Without(items, gone) ==
    IF items = <<>>
    THEN <<>>
    ELSE (IF Head(items) \in gone THEN <<>> ELSE <<Head(items)>>)
         \o Without(Tail(items), gone)

\* the first and the last element of a sequence, as Options
First(items) == IF items = <<>> THEN None ELSE Some(Head(items))
Last(items) == IF items = <<>> THEN None ELSE Some(items[Len(items)])

\* what the wrapped sequence still holds when the peeks are left out of
\* account: the items that the calls before the last one did not yield
RemainingBefore(items, calls) ==
    Without(items, Yielded(SubSeq(calls, 1, Len(calls) - 1)))

\* the items not yet yielded
Remaining(items, calls) == Without(items, Yielded(calls))

\* C28: after any calls of peek, peek_back, next and next_back, the last
\* call returned, if it was peek or next, the first element not yielded
\* before it, and if it was peek_back or next_back, the last element not
\* yielded before it; it returned None only when none remained.
C28_PeekNeverConsumes ==
    (iter_src.type = "peekable" /\ iter_log # <<>>) =>
        \A c \in {iter_log[Len(iter_log)]} :
            \A rest \in {RemainingBefore(iter_src.items, iter_log)} :
                /\ c.op \in {"peek", "next"} => c.ret = First(rest)
                /\ c.op \in {"peek_back", "next_back"} => c.ret = Last(rest)

\* C29: after any calls of peek, peek_back, next and next_back, size_hint
\* is (r, Some(r)) and count is r, r being the number of elements not yet
\* yielded, and each look-ahead cache holds at most one of them, which is
\* not in the wrapped iterator.
C29_ExactLength ==
    iter_src.type = "peekable" =>
        \A r \in {Len(Remaining(iter_src.items, iter_log))} :
            /\ DoubleEndedPeekable_size_hint(iter_self) = <<r, Some(r)>>
            /\ DoubleEndedPeekable_count(iter_self) = r
            /\ Len(iter_self.iter) + held(iter_self.peeked)
                  + held(iter_self.peeked_last) = r
            /\ iter_self.peeked # None => Len(iter_self.peeked) = 1
            /\ iter_self.peeked_last # None => Len(iter_self.peeked_last) = 1

\* both caches hold an element after one element was yielded
C29_Witness ==
    /\ iter_src.type = "peekable"
    /\ held(iter_self.peeked) = 1
    /\ held(iter_self.peeked_last) = 1
    /\ Yielded(iter_log) # {}

\* the back cache holds the one element left and the front cache holds
\* the end of the wrapped iterator
C29_WitnessEnd ==
    /\ iter_src.type = "peekable"
    /\ iter_self.peeked = Some(None)
    /\ held(iter_self.peeked_last) = 1


(***************************************************************************)
(* Properties of the iterators over groups                                 *)
(***************************************************************************)
\* the item ids the iterator was built to yield, in ascending order: those
\* of the groups asked for that the storage holds
SourceItems ==
    btree_iter(UNION {iter_src.map[g] :
                         g \in iter_src.groups \cap DOMAIN iter_src.map})

\* a sequence in reverse
Reverse(items) == [i \in DOMAIN items |-> items[Len(items) + 1 - i]]

\* every call of the log is the operation
Only(op) == \A i \in DOMAIN iter_log : iter_log[i].op = op

\* the calls of the log returned the items one after the other and None
\* from then on
YieldsInOrder(items) ==
    \A i \in DOMAIN iter_log :
        iter_log[i].ret = IF i <= Len(items) THEN Some(items[i]) ELSE None

\* C25: on the iterator over all groups of a storage of N items, calls of
\* next alone return the N item ids in ascending order and then None, and
\* calls of next_back alone return them in descending order and then None.
C25_AllGroupsOrdered ==
    iter_src.type = "all" =>
        /\ Only("next") => YieldsInOrder(SourceItems)
        /\ Only("next_back") => YieldsInOrder(Reverse(SourceItems))

\* next ran through the items of two groups, the larger id in the first
\* group, and returned None after the last
C25_Witness ==
    /\ iter_src.type = "all"
    /\ Only("next")
    /\ Len(iter_log) = MaxCall
    /\ Len(SourceItems) = MaxCall - 1
    /\ iter_log[MaxCall].ret = None
    /\ \E g, h \in DOMAIN iter_src.map :
          /\ g < h
          /\ \E i \in iter_src.map[g], j \in iter_src.map[h] : j < i

\* next_back ran through the items of two groups and returned None after
\* the last
C25_WitnessBack ==
    /\ iter_src.type = "all"
    /\ Only("next_back")
    /\ Len(iter_log) = MaxCall
    /\ Len(SourceItems) = MaxCall - 1
    /\ iter_log[MaxCall].ret = None
    /\ Cardinality({g \in DOMAIN iter_src.map : iter_src.map[g] # {}}) = 2


\* the groups asked for that the storage holds
ExistingRequested == iter_src.groups \cap DOMAIN iter_src.map

\* the group an item id is stored in
GroupOfItem(item_id) ==
    CHOOSE g \in DOMAIN iter_src.map : item_id \in iter_src.map[g]

\* C26: the iterator over a list of groups holds, as built, one partition
\* per group asked for that the storage holds, with the items of that
\* group, and using_groups is the ascending list of those groups; calls of
\* next alone return the item ids of those groups in ascending order and
\* then None, calls of next_back alone return them in descending order and
\* then None, and a group asked for that the storage does not hold adds
\* nothing.
C26_GroupSubsetOrdered ==
    iter_src.type = "list" =>
        /\ using_groups(iter_self) = btree_iter(ExistingRequested)
        /\ Len(iter_self.iters) = Cardinality(ExistingRequested)
        /\ Only("next") => YieldsInOrder(SourceItems)
        /\ Only("next_back") => YieldsInOrder(Reverse(SourceItems))
        /\ \A i \in DOMAIN iter_log :
              iter_log[i].ret # None =>
                  GroupOfItem(iter_log[i].ret[1]) \in ExistingRequested

\* next ran through the items of the one group asked for and held, a
\* group not held being asked for as well and a group held being left out
\* with an item smaller than those returned
C26_Witness ==
    /\ iter_src.type = "list"
    /\ Only("next")
    /\ UnknownGroup \in iter_src.groups
    /\ Cardinality(ExistingRequested) = 1
    /\ Len(SourceItems) = 2
    /\ Len(iter_log) = 3
    /\ iter_log[3].ret = None
    /\ \E g \in DOMAIN iter_src.map \ iter_src.groups :
          \E i \in iter_src.map[g] : i < SourceItems[1]

\* next_back ran through the items of the two groups asked for
C26_WitnessBack ==
    /\ iter_src.type = "list"
    /\ Only("next_back")
    /\ Cardinality(ExistingRequested) = 2
    /\ Len(SourceItems) = MaxCall - 1
    /\ Len(iter_log) = MaxCall
    /\ iter_log[MaxCall].ret = None


\* the items of the group asked for, in ascending order; none when the
\* storage does not hold the group
GroupItems ==
    btree_iter(UNION {iter_src.map[g] :
                         g \in iter_src.groups \cap DOMAIN iter_src.map})

\* C27: the iterator over one group returns, by calls of next alone, the
\* item ids of the group in ascending order and then None, and by calls
\* of next_back alone the same in descending order; has_iter tells
\* whether the storage holds the group, and when it does not the length
\* is 0 and every call returns None.
C27_SingleGroup ==
    iter_src.type = "id" =>
        /\ Only("next") => YieldsInOrder(GroupItems)
        /\ Only("next_back") => YieldsInOrder(Reverse(GroupItems))
        /\ has_iter(iter_self) <=> iter_src.groups \subseteq DOMAIN iter_src.map
        /\ get_group_id(iter_self) \in iter_src.groups
        /\ IterGroupById_len(iter_self)
              = Len(Remaining(GroupItems, iter_log))
        /\ ~has_iter(iter_self) =>
              /\ IterGroupById_len(iter_self) = 0
              /\ IterGroupById_size_hint(iter_self) = <<0, Some(0)>>
              /\ \A i \in DOMAIN iter_log : iter_log[i].ret = None

\* next and next_back were called on the iterator of a group that a
\* storage with items does not hold, and returned None
C27_Witness ==
    /\ iter_src.type = "id"
    /\ ~has_iter(iter_self)
    /\ \E g \in DOMAIN iter_src.map : iter_src.map[g] # {}
    /\ \E i, j \in DOMAIN iter_log :
          /\ iter_log[i] = [op |-> "next", ret |-> None]
          /\ iter_log[j] = [op |-> "next_back", ret |-> None]

\* next ran through the two items of a group of a storage that holds
\* another group with an item between them
C27_WitnessExist ==
    /\ iter_src.type = "id"
    /\ has_iter(iter_self)
    /\ Only("next")
    /\ Len(GroupItems) = 2
    /\ Len(iter_log) = 3
    /\ iter_log[3].ret = None
    /\ \E g \in DOMAIN iter_src.map \ iter_src.groups :
          \E i \in iter_src.map[g] : GroupItems[1] < i /\ i < GroupItems[2]


\* C30: on the iterator over all groups or over a list of groups, after
\* any calls of next and next_back, the last call returned, if it was
\* next, the smallest and, if it was next_back, the largest item id that
\* the calls before it had not returned, and None only when they had
\* returned every item; so no item is returned twice.
C30_MergeDoubleEnded ==
    (iter_src.type \in {"all", "list"} /\ iter_log # <<>>) =>
        \A c \in {iter_log[Len(iter_log)]} :
            \A rest \in {RemainingBefore(SourceItems, iter_log)} :
                /\ c.op = "next" => c.ret = First(rest)
                /\ c.op = "next_back" => c.ret = Last(rest)


(***************************************************************************)
(* Properties of DoubleEndedPeekable::nth                                  *)
(***************************************************************************)
\* the iterator after k successive calls of next, with what the last of
\* them returned
RECURSIVE NextTimes(_, _)
NextTimes(self, k) ==
    IF k = 1
    THEN DoubleEndedPeekable_next(self)
    ELSE NextTimes(DoubleEndedPeekable_next(self).self, k - 1)

\* the elements the wrapper holds, front to back: the front cache, the
\* wrapped iterator, the back cache
Held(self) ==
    flatten(self.peeked) \o self.iter \o flatten(self.peeked_last)

\* the step is a call of nth(n)
NthCalled(n) ==
    /\ iter_src.type = "peekable"
    /\ Len(iter_log') = Len(iter_log) + 1
    /\ iter_log'[Len(iter_log')].op = "nth"
    /\ iter_log'[Len(iter_log')].n = n

\* C31: in every look-ahead state, nth(n) returns what the (n+1)-th of
\* n+1 successive calls of next would return and leaves the elements
\* those calls would leave; nth(len-1) returns the last element held.
C31_NthAsNexts ==
    [][\A n \in NthArgs :
          NthCalled(n) =>
              /\ iter_log'[Len(iter_log')].ret
                    = NextTimes(iter_self, n + 1).ret
              /\ Held(iter_self') = Held(NextTimes(iter_self, n + 1).self)
              /\ n = Len(Held(iter_self)) - 1 =>
                    iter_log'[Len(iter_log')].ret = Last(Held(iter_self))]_vars


(***************************************************************************)
(* Properties of push_default and its commit action                        *)
(***************************************************************************)
\* the step is a call of push_default whose commit action reported the
\* result
PushDefaultReported(result) ==
    /\ last'.op = "push_default"
    /\ last'.result = Some(result)

\* C32: a push_default whose commit action reports failure panics, and the
\* arena is then as it was before the call: no entity has been stored
\* under item id 0 of the group.
C32_DefaultPanicsOnFailure ==
    [][PushDefaultReported(FALSE) =>
          /\ panicked'
          /\ arena' = arena
          /\ get_default(arena', default_group)
                = get_default(arena, default_group)
          /\ last'.calls = <<"action", "panic">>]_vars

\* push_default panicked on a commit action that reported failure, on an
\* arena that holds entities and no default entity
C32_Witness ==
    /\ last.op = "push_default"
    /\ last.result = Some(FALSE)
    /\ panicked
    /\ arena # EmptyMap
    /\ get_default(arena, default_group) = None

\* C38: whenever the commit action of push_default reports success, with
\* errors or without, push_default returns and the default entity is
\* stored under item id 0 of its group.
C38_DefaultStoredOnSuccess ==
    (last.op = "push_default" /\ last.result = Some(TRUE)) =>
        /\ ~panicked
        /\ get_default(arena, default_group)
              = Some(DefaultItem(default_group))


(***************************************************************************)
(* Properties that relate the Resolver to the arena                        *)
(***************************************************************************)
\* C33: after any pushes whose commit actions register names through the
\* Resolver, every name bound to a node resolves to a key under which the
\* arena holds an entity.
C33_NamesReferToStoredEntities ==
    \A n \in Names :
        Bound("Node", n) =>
            get_graph_item_id_pair(resolver, "Node", n).value
                \in DOMAIN arena


(***************************************************************************)
(* Properties of the ids of a fresh arena                                  *)
(***************************************************************************)
\* C39: on a fresh arena the k-th push whose builder yields an entity hands
\* item id k to its commit action, whatever the commit actions report, and
\* a push whose builder yields no entity draws no id: the counter is the
\* number of pushes that built an entity.
C39_IdsDenseFromOne ==
    /\ \A k \in 1..Len(log) : log[k].id = k
    /\ pushed_index = Len(log)
    /\ (last.op = "push" /\ ~last.built) =>
          Positions(last.calls, "get_push_index") = {}
    /\ (last.op = "push" /\ last.built) => last.key[1][2] = Len(log)

\* the second push that built an entity got item id 2 after the commit
\* action of the first had reported failure
C39_Witness ==
    /\ Len(log) = 2
    /\ ~log[1].result
    /\ log[2].id = 2
    /\ last.op = "push"
    /\ last.key[1][2] = 2

\* a push that built no entity followed one that did and left the counter
C39_WitnessUnbuilt ==
    /\ last.op = "push"
    /\ ~last.built
    /\ Len(log) = 1
    /\ pushed_index = 1


(***************************************************************************)
(* Properties of next and next_back of the peekable wrapper                *)
(***************************************************************************)
\* the positions of a log at which next or next_back was called
YieldingCalls(calls) == {i \in DOMAIN calls : calls[i].op \in YieldingOps}

\* C34: under any interleaving of peek, peek_back, next and next_back,
\* every call of next returned the first and every call of next_back the
\* last element not yielded before it (None only when none remained), no
\* element was yielded twice, and after a call of next or next_back that
\* returned None every later one returned None.
C34_FusedExactlyOnce ==
    iter_src.type = "peekable" =>
        \A i \in YieldingCalls(iter_log) :
            /\ \A rest \in {Without(iter_src.items,
                                    Yielded(SubSeq(iter_log, 1, i - 1)))} :
                  /\ iter_log[i].op = "next" => iter_log[i].ret = First(rest)
                  /\ iter_log[i].op = "next_back" =>
                        iter_log[i].ret = Last(rest)
            /\ \A j \in YieldingCalls(iter_log) :
                  /\ (i < j /\ iter_log[i].ret = None) =>
                        iter_log[j].ret = None
                  /\ (i < j /\ iter_log[i].ret # None) =>
                        iter_log[j].ret # iter_log[i].ret


(***************************************************************************)
(* Properties of nth_back of the iterator over one group                   *)
(***************************************************************************)
\* the result of k successive calls of next_back: the iterator they leave
\* and what the last of them returns
RECURSIVE NextBackTimes(_, _)
NextBackTimes(self, k) ==
    IF k = 1
    THEN IterGroupById_next_back(self)
    ELSE NextBackTimes(IterGroupById_next_back(self).self, k - 1)

\* the step is a call of nth_back(n)
NthBackCalled(n) ==
    /\ iter_src.type = "id"
    /\ Len(iter_log') = Len(iter_log) + 1
    /\ iter_log'[Len(iter_log')].op = "nth_back"
    /\ iter_log'[Len(iter_log')].n = n

\* C35: nth_back(n) of the iterator over one group returns what the
\* (n+1)-th of n+1 successive calls of next_back would return, and leaves
\* the iterator those calls would leave: n+1 elements fewer at the back.
C35_NthBackAsNextBacks ==
    [][\A n \in NthArgs :
          NthBackCalled(n) =>
              /\ iter_log'[Len(iter_log')].ret
                    = NextBackTimes(iter_self, n + 1).ret
              /\ iter_self' = NextBackTimes(iter_self, n + 1).self]_vars


(***************************************************************************)
(* Properties of size_hint of the iterators over several groups            *)
(***************************************************************************)
\* size_hint of the iterator over all groups or over a list of groups
MergeSizeHint ==
    IF iter_src.type = "all"
    THEN IterGroupByAll_size_hint(iter_self)
    ELSE IterGroupByList_size_hint(iter_self)

\* C37: at every point size_hint of the iterator over all groups or over a
\* list of groups is (r, Some(r)), r being the number of items not yet
\* yielded, also when the iterator has no partition at all, and len returns
\* r without failing.
C37_MergeExactLength ==
    iter_src.type \in {"all", "list"} =>
        \A r \in {Len(Remaining(SourceItems, iter_log))} :
            /\ MergeSizeHint = <<r, Some(r)>>
            /\ ~ExactSizeIterator_len(MergeSizeHint).panic
            /\ ExactSizeIterator_len(MergeSizeHint).ret = r


(***************************************************************************)
(* Properties of the two directions of the iterators over several groups   *)
(***************************************************************************)
\* the iterator of the state as it was built
FreshEntries ==
    IF iter_src.type = "all_entries"
    THEN IterGroupByAll_from_btree_map_of_entries(iter_src.map)
    ELSE IterGroupByList_from_btree_map_of_entries(iter_src.groups,
                                                   iter_src.map)

\* the pairs that repeated calls of next yield until the first None
RECURSIVE NextSequence(_)
NextSequence(self) ==
    IF IterGroupByAll_next_of_entries(self).ret = None
    THEN <<>>
    ELSE <<IterGroupByAll_next_of_entries(self).ret[1]>>
         \o NextSequence(IterGroupByAll_next_of_entries(self).self)

\* C36: on a fresh iterator over all groups or over a list of groups, the
\* (item id, entity) pairs that repeated calls of next_back yield are, one
\* after the other, those that repeated calls of next yield on a fresh
\* iterator taken from the last to the first, also when groups hold the
\* same item id.
C36_BackIsReverseOfFront ==
    (iter_src.type \in {"all_entries", "list_entries"}
        /\ Only("next_back")) =>
        \A forward \in {NextSequence(FreshEntries)} :
            \A k \in DOMAIN iter_log :
                iter_log[k].ret =
                    IF k <= Len(forward)
                    THEN Some(Reverse(forward)[k])
                    ELSE None


(***************************************************************************)
(* Properties of the endpoints the edge builder accepts                    *)
(***************************************************************************)
\* the specified endpoints of the edge builders
SomeEndpoints == OptEndpoints \ {None}

\* C40: an endpoint of kind Group whose name resolves to a group that is
\* neither the edge's belonging group nor a group above it (a group below
\* it or in another subtree) is resolved to the kind with that group's
\* (belonging group, id) pair and no error; an endpoint of kind Node or
\* Edge is resolved to its pair whenever its name resolves, whatever its
\* id; a builder none of whose endpoints names its own group or a group
\* above it never reports CannotSpecifyBelongGroupAsEndpoint.
C40_OtherGroupsAccepted ==
    /\ \A bg \in OptNames, e \in SomeEndpoints :
          \A g \in {get_belong_group(resolver, bg)} :
             g.ok =>
               \A p \in {get_graph_item_id_pair(resolver, e[1][1], e[1][2])} :
                 \A r \in {EdgeItemBuilder_resolve_endpoint(
                              g.value, e, resolver,
                              <<"NotSpecifyStartEndpoint">>)} :
                    /\ (p.ok /\ ~NamesOwnGroup(g.value, e)) =>
                          r = [endpoint |-> Some(<<e[1][1], p.value>>),
                               errors |-> <<>>]
                    /\ e[1][1] # "Group" =>
                          /\ p.ok <=> r.endpoint # None
                          /\ ~p.ok => r.errors = <<p.err>>
    /\ \A b \in PushedEdgeBuilders : \A g \in {BelongGroupOf(b)} :
          (g.ok /\ \A e \in {b.start, b.end} : ~NamesOwnGroup(g.value, e))
             => \A n \in Names :
                   <<"CannotSpecifyBelongGroupAsEndpoint", n>>
                      \notin ErrorsIn(PushOf(b).ret[2])

\* an edge was stored whose start endpoint is a group below its own
C40_Witness ==
    /\ last.op = "push"
    /\ last.built
    /\ last.key[1] \in DOMAIN arena
    /\ arena[last.key[1]].kind = "Edge"
    /\ arena[last.key[1]].start[1] = "Group"
    /\ arena[last.key[1]].belong_group_id
          \in AncestorsOf(arena[last.key[1]].start[3])

\* an endpoint of kind Group names a group of another subtree than that of
\* a belonging group a builder can name, and is resolved
C40_WitnessSibling ==
    \E bg \in OptNames, e \in SomeEndpoints :
        /\ get_belong_group(resolver, bg).ok
        /\ e[1][1] = "Group"
        /\ get_graph_item_id_pair(resolver, "Group", e[1][2]).ok
        /\ \A id \in {get_graph_item_id_pair(resolver, "Group",
                                             e[1][2]).value[2]} :
              \A group_id \in {get_belong_group(resolver, bg).value} :
                 /\ id # group_id
                 /\ id \notin AncestorsOf(group_id)
                 /\ group_id \notin AncestorsOf(id)
                 /\ EdgeItemBuilder_resolve_endpoint(
                        group_id, e, resolver,
                        <<"NotSpecifyStartEndpoint">>).endpoint # None

\* an endpoint of kind Node is resolved whose item id is the id of the
\* belonging group of the builder
C40_WitnessNode ==
    \E bg \in OptNames, e \in SomeEndpoints :
        /\ get_belong_group(resolver, bg).ok
        /\ e[1][1] = "Node"
        /\ get_graph_item_id_pair(resolver, "Node", e[1][2]).ok
        /\ get_graph_item_id_pair(resolver, "Node", e[1][2]).value[2]
              = get_belong_group(resolver, bg).value
        /\ EdgeItemBuilder_resolve_endpoint(
               get_belong_group(resolver, bg).value, e, resolver,
               <<"NotSpecifyStartEndpoint">>).endpoint # None

====
